---- MODULE Spec2Model ----
(***************************************************************************)
(* FileSieve: the signature cache (cache.py), the exact duplicate pipeline *)
(* (exact.py), the perceptual media pipeline (media.py) and the            *)
(* orchestrator that drives a run (sieve.py).                              *)
(***************************************************************************)
EXTENDS Integers, Sequences, FiniteSets, TLC

VARIABLES
    db,          \* SignatureCache: the rows of table signatures, keyed by path
    in_txn,      \* SignatureCache._conn: a write transaction is open
    last_op,     \* the cache operation performed last
    last_ret     \* what the last operation gave back: get's record or None,
                 \* the number of rows prune_stale's DELETE removed

VARIABLES
    disk,        \* the scanned tree: path -> content of the file, Absent if none
    mtime,       \* path -> st_mtime_ns of the file
    hq,          \* content -> quick_hash digest of a file with that content
    hf,          \* content -> full_hash digest of a file with that content
    dup_store,   \* the duplicate directory: source path -> content moved there
    durable,     \* the rows of the cache file as of the last commit
    pc,          \* where walk_many stands
    run,         \* number of walk_many calls so far; the current run_id
    base_dirs,   \* walk_many's argument
    cache_on,    \* self.cache_db is not None
    files,       \* walk_many: the inventory, a list of file metadata records
    scanned,     \* the tree as the scan of the current run saw it
    quick_hashes,      \* run_exact_pipeline: path -> quick digest
    full_hashes,       \* run_exact_pipeline: path -> full digest
    work,        \* the (canonical, candidate) pairs of the verification loop
    work_i,      \* index of the next pair of work
    moved_paths,       \* run_exact_pipeline: moved_paths
    duplicates_moved,  \* run_exact_pipeline: duplicates_moved
    anomalies,   \* "Hash collision anomaly detected" warnings of the run
    move_errors, \* "Unable to move duplicate file" errors of the run
    stats,       \* cache_hits and cache_misses of the run
    history      \* one summary per finished run

VARIABLES
    config,      \* the merged settings of Sieve.__init__ that the media stage reads
    probe,       \* what the scan and the FFmpeg tools make of the files
    media,       \* run_media_pipeline: its locals and its result
    pool         \* _bounded_parallel_map: its locals and its result

cache_vars == <<db, in_txn, last_op, last_ret>>

tree_vars == <<disk, mtime, hq, hf, dup_store>>

run_vars == <<pc, run, base_dirs, cache_on, files, scanned, quick_hashes, full_hashes, work, work_i, moved_paths, duplicates_moved, anomalies, move_errors, stats, history>>

media_vars == <<config, probe, media, pool>>

walk_vars == <<tree_vars, durable, run_vars, media_vars>>

vars == <<cache_vars, walk_vars>>

(***************************************************************************)
(* Bounds of the cache model.                                              *)
(***************************************************************************)
MaxDigest == 2      \* non-null fingerprint values range over 1..MaxDigest
MaxRun == 2         \* run identifiers range over 1..MaxRun
MaxPrunePaths == 2  \* paths of the multi-row cache range over 1..MaxPrunePaths

(***************************************************************************)
(* Bounds of the tree and of the runs over it.                             *)
(***************************************************************************)
NumFiles == 3       \* the tree holds the paths 1..NumFiles
MaxContent == 3     \* file contents range over 1..MaxContent
MaxMtime == 2       \* st_mtime_ns ranges over 1..MaxMtime
MaxBaseDirs == 2    \* walk_many is given 1..MaxBaseDirs base directories
MaxWalks == 2       \* walk_many is called at most MaxWalks times

(***************************************************************************)
(* cache.py                                                                *)
(***************************************************************************)

\* SQL NULL / Python None in a fingerprint column.
NULL == 0

\* get's "return None".
None == [none |-> TRUE]

\* CacheRecord(quick_hash, full_hash, media_sig, media_meta)
CacheRecord(quick_hash, full_hash, media_sig, media_meta) ==
    [quick_hash |-> quick_hash, full_hash |-> full_hash,
     media_sig |-> media_sig, media_meta |-> media_meta]

\* The fingerprint columns of a stored row, as a CacheRecord.
RowRecord(row) ==
    CacheRecord(row.quick_hash, row.full_hash, row.media_sig, row.media_meta)

\* The WHERE clause of get: size, mtime_ns, dev and ino all equal the row's.
StatMatches(row, size, mtime_ns, dev, ino) ==
    /\ row.size = size
    /\ row.mtime_ns = mtime_ns
    /\ row.dev = dev
    /\ row.ino = ino

\* Mutant of Get: the WHERE clause forgets the inode.
Get_NoIno(d, path, size, mtime_ns, dev, ino) ==
    IF /\ path \in DOMAIN d
       /\ d[path].size = size
       /\ d[path].mtime_ns = mtime_ns
       /\ d[path].dev = dev
    THEN RowRecord(d[path])
    ELSE None

\* SignatureCache.get
Get(d, path, size, mtime_ns, dev, ino) ==
    IF path \in DOMAIN d /\ StatMatches(d[path], size, mtime_ns, dev, ino)
    THEN RowRecord(d[path])
    ELSE None

\* SQL COALESCE(a, b)
COALESCE(a, b) == IF a # NULL THEN a ELSE b

\* The WHEN condition of upsert's CASE expressions: the stored stat differs
\* from the incoming one in some column.
StatChanged(row, size, mtime_ns, dev, ino) ==
    \/ row.size # size
    \/ row.mtime_ns # mtime_ns
    \/ row.dev # dev
    \/ row.ino # ino

\* Mutant of UpsertColumn: the stored value is promoted whatever the stat.
UpsertColumn_AlwaysCoalesce(changed, excluded, stored) ==
    COALESCE(excluded, stored)

\* Mutant of UpsertColumn: the incoming value always replaces the stored one.
UpsertColumn_AlwaysExcluded(changed, excluded, stored) ==
    excluded

\* One CASE expression of upsert's ON CONFLICT clause.
UpsertColumn(changed, excluded, stored) ==
    IF changed THEN excluded ELSE COALESCE(excluded, stored)

\* Mutant of Upsert: ON CONFLICT DO NOTHING, the stored row stays as it is.
Upsert_DoNothing(d, path, size, mtime_ns, dev, ino, last_seen_run, quick_hash, full_hash, media_sig, media_meta) ==
    LET excluded ==
            [size |-> size, mtime_ns |-> mtime_ns, dev |-> dev, ino |-> ino,
             quick_hash |-> quick_hash, full_hash |-> full_hash,
             media_sig |-> media_sig, media_meta |-> media_meta,
             last_seen_run |-> last_seen_run]
    IN  [p \in DOMAIN d \cup {path} |->
            IF p \in DOMAIN d THEN d[p] ELSE excluded]

\* Mutant of Upsert: on a conflict the row keeps its last_seen_run.
Upsert_KeepsStamp(d, path, size, mtime_ns, dev, ino, last_seen_run, quick_hash, full_hash, media_sig, media_meta) ==
    LET excluded ==
            [size |-> size, mtime_ns |-> mtime_ns, dev |-> dev, ino |-> ino,
             quick_hash |-> quick_hash, full_hash |-> full_hash,
             media_sig |-> media_sig, media_meta |-> media_meta,
             last_seen_run |-> last_seen_run]
        changed ==
            StatChanged(d[path], size, mtime_ns, dev, ino)
        updated ==
            [size |-> size, mtime_ns |-> mtime_ns, dev |-> dev, ino |-> ino,
             quick_hash |-> UpsertColumn(changed, quick_hash, d[path].quick_hash),
             full_hash |-> UpsertColumn(changed, full_hash, d[path].full_hash),
             media_sig |-> UpsertColumn(changed, media_sig, d[path].media_sig),
             media_meta |-> UpsertColumn(changed, media_meta, d[path].media_meta),
             last_seen_run |-> d[path].last_seen_run]
    IN  [p \in DOMAIN d \cup {path} |->
            IF p # path THEN d[p]
            ELSE IF path \in DOMAIN d THEN updated ELSE excluded]

\* SignatureCache.upsert
Upsert(d, path, size, mtime_ns, dev, ino, last_seen_run, quick_hash, full_hash, media_sig, media_meta) ==
    LET excluded ==
            [size |-> size, mtime_ns |-> mtime_ns, dev |-> dev, ino |-> ino,
             quick_hash |-> quick_hash, full_hash |-> full_hash,
             media_sig |-> media_sig, media_meta |-> media_meta,
             last_seen_run |-> last_seen_run]
        changed ==
            StatChanged(d[path], size, mtime_ns, dev, ino)
        updated ==
            [size |-> size, mtime_ns |-> mtime_ns, dev |-> dev, ino |-> ino,
             quick_hash |-> UpsertColumn(changed, quick_hash, d[path].quick_hash),
             full_hash |-> UpsertColumn(changed, full_hash, d[path].full_hash),
             media_sig |-> UpsertColumn(changed, media_sig, d[path].media_sig),
             media_meta |-> UpsertColumn(changed, media_meta, d[path].media_meta),
             last_seen_run |-> last_seen_run]
    IN  [p \in DOMAIN d \cup {path} |->
            IF p # path THEN d[p]
            ELSE IF path \in DOMAIN d THEN updated ELSE excluded]

\* Mutant of PruneStale: the comparison is inverted.
PruneStale_Inverted(d, run_id) ==
    [p \in {q \in DOMAIN d : d[q].last_seen_run # run_id} |-> d[p]]

\* The DELETE of prune_stale: rows with last_seen_run <> run_id go.
PruneStale(d, run_id) ==
    [p \in {q \in DOMAIN d : d[q].last_seen_run = run_id} |-> d[p]]

\* The table after _ensure_schema on a fresh file.
EmptyDb == [p \in {} |-> None]

(***************************************************************************)
(* The cache driven by arbitrary callers.                                  *)
(***************************************************************************)

\* size, mtime_ns, dev and ino: the code only tests them for equality, so
\* two values give every case of equal and unequal columns.
Stats == {1, 2}
Runs == 1..MaxRun

\* last_seen_run is only compared by prune_stale: where several rows of
\* different runs are not at stake, two run identifiers give every case.
StampRuns == {1, 2}
Digests == 1..MaxDigest

\* Stat tuples that differ from <<1, 1, 1, 1>> in at most one column.
Identities ==
    {s \in [{"size", "mtime_ns", "dev", "ino"} -> Stats] :
        Cardinality({k \in DOMAIN s : s[k] # 1}) <= 1}

\* Fingerprint arguments as the callers pass them: nothing, one column, the
\* two media columns, or all four, the non-null columns carrying one digest.
CallFingerprints ==
    {CacheRecord(NULL, NULL, NULL, NULL)}
    \cup {CacheRecord(v, NULL, NULL, NULL) : v \in Digests}
    \cup {CacheRecord(NULL, v, NULL, NULL) : v \in Digests}
    \cup {CacheRecord(NULL, NULL, v, NULL) : v \in Digests}
    \cup {CacheRecord(NULL, NULL, NULL, v) : v \in Digests}
    \cup {CacheRecord(NULL, NULL, v, v) : v \in Digests}
    \cup {CacheRecord(v, v, v, v) : v \in Digests}

\* Fingerprint arguments: every pattern of null and non-null columns, the
\* non-null columns carrying one digest.
Fingerprints ==
    {CacheRecord(IF a THEN v ELSE NULL, IF b THEN v ELSE NULL,
                 IF c THEN v ELSE NULL, IF e THEN v ELSE NULL) :
        <<a, b, c, e, v>> \in BOOLEAN \X BOOLEAN \X BOOLEAN \X BOOLEAN \X Digests}

\* Fingerprint arguments over the two exact hashes only, with one digest.
HashFingerprints ==
    {CacheRecord(q, f, NULL, NULL) : <<q, f>> \in {NULL, 1} \X {NULL, 1}}

RowPaths == {1}
PrunePaths == 1..MaxPrunePaths

UpsertOf(d, path, s, f, run_id) ==
    Upsert(d, path, s.size, s.mtime_ns, s.dev, s.ino, run_id,
           f.quick_hash, f.full_hash, f.media_sig, f.media_meta)

GetOf(d, path, s) == Get(d, path, s.size, s.mtime_ns, s.dev, s.ino)

\* A connection to a fresh cache file.
Connect ==
    /\ db = EmptyDb
    /\ in_txn = FALSE
    /\ last_op = "connect"
    /\ last_ret = None

\* No tree and no run: the cache is driven on its own.
NoWalk ==
    /\ disk = <<>> /\ mtime = <<>> /\ hq = <<>> /\ hf = <<>>
    /\ dup_store = <<>> /\ durable = EmptyDb
    /\ pc = "idle" /\ run = 0 /\ base_dirs = <<>> /\ cache_on = FALSE
    /\ files = <<>> /\ scanned = <<>>
    /\ quick_hashes = <<>> /\ full_hashes = <<>>
    /\ work = <<>> /\ work_i = 1
    /\ moved_paths = {} /\ duplicates_moved = <<>>
    /\ anomalies = {} /\ move_errors = {}
    /\ stats = [cache_hits |-> 0, cache_misses |-> 0]
    /\ history = <<>>
    /\ config = <<>> /\ probe = <<>> /\ media = <<>> /\ pool = <<>>

CacheInit == Connect /\ NoWalk

DoGet(paths, idents) ==
    \E path \in paths, s \in idents :
        /\ last_ret' = GetOf(db, path, s)
        /\ last_op' = IF GetOf(db, path, s) = None THEN "get_none" ELSE "get_row"
        /\ UNCHANGED <<db, in_txn, walk_vars>>

DoUpsert(paths, idents, fps, runs) ==
    \E path \in paths, s \in idents, f \in fps, run_id \in runs :
        /\ db' = UpsertOf(db, path, s, f, run_id)
        /\ in_txn' = TRUE
        /\ last_op' =
              IF path \notin DOMAIN db THEN "upsert_insert"
              ELSE IF StatChanged(db[path], s.size, s.mtime_ns, s.dev, s.ino)
                   THEN "upsert_replace" ELSE "upsert_merge"
        /\ last_ret' = None
        /\ UNCHANGED walk_vars

\* SignatureCache.commit
DoCommit ==
    /\ in_txn' = FALSE
    /\ last_op' = "commit"
    /\ last_ret' = None
    /\ UNCHANGED <<db, walk_vars>>

\* SignatureCache.prune_stale: the DELETE, then commit.
DoPruneStale(runs) ==
    \E run_id \in runs :
        /\ db' = PruneStale(db, run_id)
        /\ in_txn' = FALSE
        /\ last_op' = "prune_stale"
        /\ last_ret' = [deleted |-> Cardinality(DOMAIN db)
                                      - Cardinality(DOMAIN PruneStale(db, run_id))]
        /\ UNCHANGED walk_vars

\* One path, every stat and fingerprint argument.
CacheNext ==
    \/ DoGet(RowPaths, Identities)
    \/ DoUpsert(RowPaths, Identities, CallFingerprints, StampRuns)
    \/ DoCommit
    \/ DoPruneStale(StampRuns)

SpecCache == CacheInit /\ [][CacheNext]_vars

\* Several paths, one stat, the exact hashes only.
PruneNext ==
    \/ DoGet(PrunePaths, {[size |-> 1, mtime_ns |-> 1, dev |-> 1, ino |-> 1]})
    \/ DoUpsert(PrunePaths, {[size |-> 1, mtime_ns |-> 1, dev |-> 1, ino |-> 1]},
                HashFingerprints, Runs)
    \/ DoCommit
    \/ DoPruneStale(Runs)

SpecPrune == CacheInit /\ [][PruneNext]_vars

(***************************************************************************)
(* cache.py: the cache file and the connection of a process that may stop  *)
(* at any statement.                                                       *)
(***************************************************************************)

\* Mutant of Autocommit: the connection commits every statement.
Autocommit_On ==
    TRUE

\* sqlite3.connect(self.db_path) without isolation_level=None: the first
\* INSERT or DELETE opens a transaction that lasts until commit().
Autocommit ==
    FALSE

\* The rows of the cache file after a statement that left the connection
\* with rows d.
FileAfter(d) == IF Autocommit THEN d ELSE durable

\* SignatureCache.upsert: the INSERT ... ON CONFLICT statement.
UpsertStatement ==
    \E path \in PrunePaths, f \in HashFingerprints, run_id \in Runs :
        LET s == [size |-> 1, mtime_ns |-> 1, dev |-> 1, ino |-> 1]
        IN  /\ db' = UpsertOf(db, path, s, f, run_id)
            /\ in_txn' = ~Autocommit
            /\ durable' = FileAfter(UpsertOf(db, path, s, f, run_id))
            /\ last_op' = "upsert"
            /\ last_ret' = None
            /\ UNCHANGED <<tree_vars, run_vars, media_vars>>

\* SignatureCache.prune_stale: the DELETE statement.
DeleteStatement ==
    \E run_id \in Runs :
        /\ db' = PruneStale(db, run_id)
        /\ in_txn' = ~Autocommit
        /\ durable' = FileAfter(PruneStale(db, run_id))
        /\ last_op' = "delete"
        /\ last_ret' = None
        /\ UNCHANGED <<tree_vars, run_vars, media_vars>>

\* self._conn.commit() of commit and of prune_stale.
CommitStatement ==
    /\ in_txn
    /\ in_txn' = FALSE
    /\ durable' = db
    /\ last_op' = "commit"
    /\ last_ret' = None
    /\ UNCHANGED <<db, tree_vars, run_vars, media_vars>>

\* The process stops and another one connects to the cache file: what was
\* not committed is rolled back when the file is opened.
Restart ==
    /\ db' = durable
    /\ in_txn' = FALSE
    /\ last_op' = IF in_txn THEN "rollback" ELSE "connect"
    /\ last_ret' = None
    /\ UNCHANGED <<durable, tree_vars, run_vars, media_vars>>

NextCrash ==
    \/ UpsertStatement
    \/ DeleteStatement
    \/ CommitStatement
    \/ Restart

SpecCrash == CacheInit /\ [][NextCrash]_vars

(***************************************************************************)
(* The tree that is scanned.                                               *)
(***************************************************************************)

Paths == 1..NumFiles
Contents == 1..MaxContent
Mtimes == 1..MaxMtime

\* No file at the path.
Absent == 0

\* st_size of a file with content c: the last content is longer than the
\* others, which all have one length.
SizeOf(c) == IF c = MaxContent THEN 2 ELSE 1

\* Digest functions: equal contents have equal digests, and different
\* contents of one length may collide.  Files of different lengths never
\* meet in a group, so only the digests of the short contents vary; they
\* are numbered in the order of the contents.
HashFunctions ==
    {h \in [Contents -> Contents] :
        \A c \in Contents :
            /\ SizeOf(c) = 2 => h[c] = c
            /\ SizeOf(c) = 1 =>
                  \A v \in 1..(h[c] - 1) : \E b \in 1..(c - 1) : h[b] = v}

\* The base directories: "root" holds every path, its subdirectory "sub"
\* holds the last one.
Dirs == {"root", "sub"}

InDir(p, base_dir) == base_dir = "root" \/ p = NumFiles

\* walk_many's argument.
BaseDirLists ==
    UNION {[1..n -> Dirs] : n \in 1..MaxBaseDirs}

(***************************************************************************)
(* List helpers of exact.py.                                               *)
(***************************************************************************)

\* The members of a finite set of numbers, in increasing order.
IdxSeq(I) ==
    [k \in 1..Cardinality(I) |->
        CHOOSE i \in I : Cardinality({j \in I : j < i}) = k - 1]

\* defaultdict(list) filled in list order: the groups in order of their
\* first member, each group in list order.  keys[i] is the key of seq[i].
GroupBy(seq, keys) ==
    LET firsts ==
            IdxSeq({i \in DOMAIN seq : \A j \in 1..(i - 1) : keys[j] # keys[i]})
        members(i) ==
            IdxSeq({j \in DOMAIN seq : keys[j] = keys[i]})
    IN  [g \in DOMAIN firsts |->
            LET group == members(firsts[g])
            IN  [k \in DOMAIN group |-> seq[group[k]]]]

RECURSIVE Flatten(_)
Flatten(lists) ==
    IF lists = <<>> THEN <<>> ELSE Head(lists) \o Flatten(Tail(lists))

\* [meta for group in groups.values() if len(group) > 1 for meta in group]
Survivors(groups) ==
    Flatten(SelectSeq(groups, LAMBDA group : Len(group) > 1))

\* dict[key] = value
Put(dict, key, value) ==
    [k \in DOMAIN dict \cup {key} |-> IF k = key THEN value ELSE dict[k]]

(***************************************************************************)
(* sieve.py: the scan.                                                     *)
(***************************************************************************)

\* ExactFileMeta of the file at path p, from its stat.
ExactFileMeta(p) ==
    [path |-> p, size |-> SizeOf(disk[p]), mtime_ns |-> mtime[p],
     dev |-> 1, ino |-> p]

\* Sieve._scan_base_dir: the files beneath base_dir in traversal order.
ScanBaseDir(base_dir) ==
    LET found == IdxSeq({p \in Paths : disk[p] # Absent /\ InDir(p, base_dir)})
    IN  [k \in DOMAIN found |-> ExactFileMeta(found[k])]

\* walk_many: files.extend(self._scan_base_dir(base_dir)) for each base_dir.
Inventory(dirs) ==
    Flatten([k \in DOMAIN dirs |-> ScanBaseDir(dirs[k])])

(***************************************************************************)
(* exact.py: the hashing stages.                                           *)
(***************************************************************************)

\* quick_hash / full_hash of the file at the path: the digest of its bytes.
QuickDigest(path) == hq[disk[path]]

FullDigest(path) == hf[disk[path]]

\* _build_size_groups and candidate_files.
SizeGroups(metas) ==
    GroupBy(metas, [i \in DOMAIN metas |-> metas[i].size])

CandidateFiles == Survivors(SizeGroups(files))

\* quick_groups and full_candidates.
QuickGroups ==
    LET candidate_files == CandidateFiles
    IN  GroupBy(candidate_files,
                [i \in DOMAIN candidate_files |->
                    <<candidate_files[i].size, quick_hashes[candidate_files[i].path]>>])

FullCandidates == Survivors(QuickGroups)

\* full_groups, given the full digests.
FullGroups(hashes) ==
    LET full_candidates == FullCandidates
    IN  GroupBy(full_candidates,
                [i \in DOMAIN full_candidates |->
                    <<full_candidates[i].size, hashes[full_candidates[i].path]>>])

\* The loop over the candidates that consults the cache (lines 200-226 for
\* col = "quick_hash", 259-285 for col = "full_hash").  acc carries the
\* cache rows, the digests taken from the cache, the files still to hash
\* and the hit and miss counters.
RECURSIVE LookupLoop(_, _, _, _)
LookupLoop(metas, col, run_id, acc) ==
    IF metas = <<>> THEN acc
    ELSE
        LET meta == Head(metas)
            record == Get(acc.rows, meta.path, meta.size, meta.mtime_ns, meta.dev, meta.ino)
            hit == record # None /\ record[col] # NULL
            next ==
                IF ~cache_on
                THEN [acc EXCEPT !.todo = Append(@, meta)]
                ELSE IF hit
                THEN [acc EXCEPT
                        !.hits = @ + 1,
                        !.hashes = Put(@, meta.path, record[col]),
                        !.rows = Upsert(@, meta.path, meta.size, meta.mtime_ns, meta.dev, meta.ino, run_id, record.quick_hash, record.full_hash, record.media_sig, record.media_meta)]
                ELSE [acc EXCEPT
                        !.misses = @ + 1,
                        !.todo = Append(@, meta)]
        IN  LookupLoop(Tail(metas), col, run_id, next)

\* The loop over the results of _bounded_parallel_map (lines 231-247 for
\* col = "quick_hash", 290-306 for col = "full_hash").
RECURSIVE StoreLoop(_, _, _, _)
StoreLoop(metas, col, run_id, acc) ==
    IF metas = <<>> THEN acc
    ELSE
        LET meta == Head(metas)
            digest == IF col = "quick_hash" THEN QuickDigest(meta.path)
                      ELSE FullDigest(meta.path)
            rows ==
                IF ~cache_on THEN acc.rows
                ELSE IF col = "quick_hash"
                THEN Upsert(acc.rows, meta.path, meta.size, meta.mtime_ns, meta.dev, meta.ino, run_id, digest, NULL, NULL, NULL)
                ELSE Upsert(acc.rows, meta.path, meta.size, meta.mtime_ns, meta.dev, meta.ino, run_id, NULL, digest, NULL, NULL)
        IN  StoreLoop(Tail(metas), col, run_id,
                      [acc EXCEPT !.hashes = Put(@, meta.path, digest), !.rows = rows])

\* One hashing stage up to the point where the digests are to be computed.
Looked(metas, col) ==
    LookupLoop(metas, col, run,
               [rows |-> db, hashes |-> <<>>, todo |-> <<>>,
                hits |-> stats.cache_hits, misses |-> stats.cache_misses])

\* One hashing stage, every digest computed.
Hashed(metas, col) ==
    LET looked == Looked(metas, col)
    IN  StoreLoop(looked.todo, col, run, looked)

(***************************************************************************)
(* exact.py: verification and move.                                        *)
(***************************************************************************)

\* The sort key (item.mtime_ns, item.path): a is before b.
KeyBefore(a, b) ==
    \/ a.mtime_ns < b.mtime_ns
    \/ a.mtime_ns = b.mtime_ns /\ a.path < b.path

\* Mutant of Ordered: the group is left in list order.
Ordered_Unsorted(group) ==
    group

\* sorted(group, key=lambda item: (item.mtime_ns, item.path)), a stable sort.
Ordered(group) ==
    LET rank(i) ==
            Cardinality({j \in DOMAIN group :
                            \/ KeyBefore(group[j], group[i])
                            \/ ~KeyBefore(group[i], group[j]) /\ j < i})
    IN  [k \in DOMAIN group |-> group[CHOOSE i \in DOMAIN group : rank(i) = k - 1]]

\* canonical = ordered[0]; for candidate in ordered[1:]
GroupPairs(group) ==
    LET ordered == Ordered(group)
    IN  [k \in 1..(Len(group) - 1) |->
            [canonical |-> ordered[1], candidate |-> ordered[k + 1]]]

\* The pairs the loop over full_groups.values() verifies, in its order.
WorkList(groups) ==
    LET big == SelectSeq(groups, LAMBDA group : Len(group) > 1)
    IN  Flatten([g \in DOMAIN big |-> GroupPairs(big[g])])

\* Mutant of CompareFiles: every pair of files is reported equal.
CompareFiles_AlwaysEqual(path_a, path_b) ==
    TRUE

\* compare_files: the two files hold the same bytes.
CompareFiles(path_a, path_b) ==
    disk[path_a] = disk[path_b]

\* _mirror_destination
MirrorDestination(source_file) ==
    <<"dup_dir", source_file>>

(***************************************************************************)
(* media.py: signatures, blocking and clustering.                          *)
(***************************************************************************)

IMAGE_KIND == "image"
VIDEO_KIND == "video"

\* Sieve._classify_kind: what the extension of a path stands for.
Kinds == {IMAGE_KIND, VIDEO_KIND, "other"}

\* A dHash is a 64-bit integer; it is written as the set of the positions
\* of its one bits, position 0 being the least significant.
HashBits == 0..63

\* digest >> n
ShiftRight(digest, n) == {b - n : b \in {x \in digest : x >= n}}

\* hamming_distance: (left ^ right).bit_count()
HammingDistance(left, right) ==
    Cardinality((left \ right) \cup (right \ left))

\* sum() of a list of numbers.
RECURSIVE Sum(_)
Sum(values) ==
    IF values = <<>> THEN 0 ELSE Head(values) + Sum(Tail(values))

\* What FFprobe and FFmpeg make of a file is a function of its bytes; the
\* contents are told apart by a look.  Looks 1, 2 and 3 are one, two and
\* three steps along a line of one-bit changes; look 4 is one bit away
\* from look 1 as an image, in the bits that make the block prefix, and
\* one bit away from look 1 in each of three frames as a video.
Looks == {1, 2, 3, 4}

\* _probe_media: width, height and duration of the first video stream.
ProbeMedia(look) ==
    [width |-> 640, height |-> 480, duration |-> 10]

\* dhash_from_pixels of the frame _extract_gray_frame takes from an image.
ImageHash(look) ==
    CASE look = 1 -> {}
      [] look = 2 -> {0}
      [] look = 3 -> {0, 1}
      [] OTHER -> {48}

\* dhash_from_pixels of the frames at VIDEO_FRACTIONS of a video.
VideoHashes(look) ==
    CASE look = 1 -> <<{}, {}, {}, {}>>
      [] look = 2 -> <<{}, {0}, {}, {}>>
      [] look = 3 -> <<{}, {0, 1}, {}, {}>>
      [] OTHER -> <<{}, {0}, {1}, {2}>>

\* _image_signature: (signature, meta)
ImageSignature(look) ==
    <<[kind |-> IMAGE_KIND, hash |-> ImageHash(look)], ProbeMedia(look)>>

\* _video_signature: (signature, meta)
VideoSignature(look) ==
    <<[kind |-> VIDEO_KIND, hashes |-> VideoHashes(look)], ProbeMedia(look)>>

\* Every (signature, meta) the tools can give, in a fixed order.
SignatureTable ==
    LET looks == IdxSeq(Looks)
    IN  [k \in DOMAIN looks |-> ImageSignature(looks[k])]
          \o [k \in DOMAIN looks |-> VideoSignature(looks[k])]

\* json.dumps of a signature or of a meta: the text, written as the number
\* of the value in the order of SignatureTable.  No text is empty.
JsonDumps(value, part) ==
    CHOOSE n \in DOMAIN SignatureTable :
        /\ SignatureTable[n][part] = value
        /\ \A k \in 1..(n - 1) : SignatureTable[k][part] # value

\* json.loads of a text written by json.dumps.
JsonLoads(text, part) == SignatureTable[text][part]

\* The settings of a run in mode exact.
ExactConfig ==
    [mode |-> "exact", ffmpeg |-> TRUE, ffprobe |-> TRUE,
     image_hamming_threshold |-> 8,
     video_hamming_threshold |-> 32,
     video_frame_hamming_threshold |-> 12,
     duration_bucket_seconds |-> 2]

\* The settings of the runs in mode media: either tool may be missing, and
\* the thresholds are small enough for the looks to lie on both sides.
MediaConfigs ==
    {[ExactConfig EXCEPT
        !.mode = "media", !.ffmpeg = tools[1], !.ffprobe = tools[2],
        !.image_hamming_threshold = 1,
        !.video_hamming_threshold = 2,
        !.video_frame_hamming_threshold = 1] :
     tools \in {<<TRUE, TRUE>>, <<FALSE, TRUE>>, <<TRUE, FALSE>>}}

\* In mode exact no file is looked at as media.
NoProbe ==
    [kind |-> [p \in Paths |-> "other"], look |-> [c \in Contents |-> 1]]

\* The kinds of the paths and the looks of the contents in mode media.
Probes ==
    {[kind |-> kinds, look |-> looks] :
        kinds \in {[p \in Paths |-> IMAGE_KIND], [p \in Paths |-> VIDEO_KIND],
                   [p \in Paths |-> IF p = 1 THEN "other" ELSE IF p = 2 THEN VIDEO_KIND ELSE IMAGE_KIND]},
        looks \in {l \in [Contents -> Looks] :
                     l[1] = 1 /\ \A c \in 2..(MaxContent - 1) : l[c] <= l[c + 1]}}

\* walk_many, lines 340-344 and MediaPipelineResult: nothing reported yet.
NoMedia ==
    [signatures_by_path |-> <<>>, order |-> <<>>, score_by_pair |-> <<>>,
     similar_media_candidates |-> <<>>,
     cache_hits |-> 0, cache_misses |-> 0, cache_calls |-> 0,
     tools_available |-> TRUE, warnings |-> {}, failed |-> {}, unparsed |-> {}]

\* walk_many, line 385: the media stage runs in mode media only.
AfterExact == IF config.mode = "media" THEN "media" ELSE "finalize"

\* Mutant of ToolsResolved: FFprobe is not asked for.
ToolsResolved_FfmpegOnly ==
    config.ffmpeg

\* resolve_media_tools and line 308: both executables were found.
ToolsResolved ==
    config.ffmpeg /\ config.ffprobe

\* Sieve._to_media_meta
MediaFileMeta(meta) ==
    [path |-> meta.path, size |-> meta.size, mtime_ns |-> meta.mtime_ns,
     dev |-> meta.dev, ino |-> meta.ino, kind |-> probe.kind[meta.path]]

\* Mutant of Candidates: the moved paths are not left out.
Candidates_WithMoved(metas, moved) ==
    SelectSeq([i \in DOMAIN metas |-> MediaFileMeta(metas[i])],
              LAMBDA meta : meta.kind \in {IMAGE_KIND, VIDEO_KIND})

\* run_media_pipeline, lines 321-325: candidates
Candidates(metas, moved) ==
    SelectSeq([i \in DOMAIN metas |-> MediaFileMeta(metas[i])],
              LAMBDA meta : meta.path \notin moved /\ meta.kind \in {IMAGE_KIND, VIDEO_KIND})

\* signatures_by_path[path] = value; order keeps the insertion order of
\* the dict.
Store(acc, path, value) ==
    [acc EXCEPT
        !.sigs = Put(@, path, value),
        !.order = IF path \in DOMAIN acc.sigs THEN @ ELSE Append(@, path)]

\* run_media_pipeline, lines 339-372: the loop that consults the cache.
\* Every text in the cache was written by json.dumps, so json.loads does
\* not fail.
RECURSIVE MediaLookupLoop(_, _, _)
MediaLookupLoop(metas, run_id, acc) ==
    IF metas = <<>> THEN acc
    ELSE
        LET meta == Head(metas)
            record == Get(acc.rows, meta.path, meta.size, meta.mtime_ns, meta.dev, meta.ino)
            hit == record # None /\ record.media_sig # NULL /\ record.media_meta # NULL
            next ==
                IF ~cache_on
                THEN [acc EXCEPT !.todo = Append(@, meta)]
                ELSE IF hit
                THEN [Store(acc, meta.path, <<JsonLoads(record.media_sig, 1), JsonLoads(record.media_meta, 2)>>) EXCEPT
                        !.hits = @ + 1,
                        !.calls = @ + 2,
                        !.rows = Upsert(@, meta.path, meta.size, meta.mtime_ns, meta.dev, meta.ino, run_id, record.quick_hash, record.full_hash, record.media_sig, record.media_meta)]
                ELSE [acc EXCEPT
                        !.misses = @ + 1,
                        !.calls = @ + 1,
                        !.todo = Append(@, meta)]
        IN  MediaLookupLoop(Tail(metas), run_id, next)

\* _compute_signature: the signature of the file, None when a tool fails
\* on it.
ComputeSignature(meta, failed) ==
    IF meta.path \in failed \/ disk[meta.path] = Absent THEN None
    ELSE IF meta.kind = IMAGE_KIND THEN ImageSignature(probe.look[disk[meta.path]])
    ELSE IF meta.kind = VIDEO_KIND THEN VideoSignature(probe.look[disk[meta.path]])
    ELSE None

\* run_media_pipeline, lines 385-400: the loop over the computed
\* signatures.
RECURSIVE MediaStoreLoop(_, _, _, _)
MediaStoreLoop(metas, run_id, failed, acc) ==
    IF metas = <<>> THEN acc
    ELSE
        LET meta == Head(metas)
            result == ComputeSignature(meta, failed)
            next ==
                IF result = None
                THEN [acc EXCEPT !.warnings = @ \cup {meta.path}]
                ELSE IF ~cache_on
                THEN Store(acc, meta.path, result)
                ELSE [Store(acc, meta.path, result) EXCEPT
                        !.calls = @ + 1,
                        !.rows = Upsert(@, meta.path, meta.size, meta.mtime_ns, meta.dev, meta.ino, run_id, NULL, NULL, JsonDumps(result[1], 1), JsonDumps(result[2], 2))]
        IN  MediaStoreLoop(Tail(metas), run_id, failed, next)

\* int(round(x)) of the fraction num / den: halves go to the even number.
Round(num, den) ==
    LET floor == num \div den
        twice == 2 * (num % den)
    IN  IF twice < den THEN floor
        ELSE IF twice > den THEN floor + 1
        ELSE IF floor % 2 = 0 THEN floor ELSE floor + 1

\* Mutant of BlockingKey: the files are blocked by their kind alone.
BlockingKey_KindOnly(signature, meta, duration_bucket_seconds) ==
    <<signature.kind>>

\* _blocking_key
BlockingKey(signature, meta, duration_bucket_seconds) ==
    IF signature.kind = IMAGE_KIND
    THEN <<signature.kind, meta.width \div 64, meta.height \div 64,
           ShiftRight(signature.hash, 48)>>
    ELSE <<signature.kind,
           IF duration_bucket_seconds > 0
           THEN meta.duration \div duration_bucket_seconds ELSE meta.duration,
           IF meta.height # 0 THEN Round(meta.width * 10, meta.height) ELSE 0,
           IF signature.hashes # <<>> THEN ShiftRight(signature.hashes[1], 48) ELSE {}>>

\* block_groups.values(): the paths of each block, in insertion order.
BlockGroups(sigs, order) ==
    GroupBy(order,
            [i \in DOMAIN order |->
                BlockingKey(sigs[order[i]][1], sigs[order[i]][2], config.duration_bucket_seconds)])

\* frame_scores
FrameScores(left, right) ==
    [pos \in DOMAIN left.hashes |-> HammingDistance(left.hashes[pos], right.hashes[pos])]

\* Lines 424-445, score: the distance of two signatures of one kind.
Score(left, right) ==
    IF left.kind = IMAGE_KIND
    THEN HammingDistance(left.hash, right.hash)
    ELSE Sum(FrameScores(left, right))

\* Mutant of ImageSimilar: the threshold itself is excluded.
ImageSimilar_Strict(left, right) ==
    Score(left, right) < config.image_hamming_threshold

\* Lines 427-432: similar, for two images.
ImageSimilar(left, right) ==
    Score(left, right) <= config.image_hamming_threshold

\* Mutant of VideoSimilar: the frames are not looked at one by one.
VideoSimilar_SumOnly(left, right) ==
    /\ Len(left.hashes) = Len(right.hashes)
    /\ Score(left, right) <= config.video_hamming_threshold

\* Lines 433-445: similar, for two videos.
VideoSimilar(left, right) ==
    /\ Len(left.hashes) = Len(right.hashes)
    /\ Score(left, right) <= config.video_hamming_threshold
    /\ \A pos \in DOMAIN left.hashes :
          FrameScores(left, right)[pos] <= config.video_frame_hamming_threshold

\* Lines 422-446: similar, for the signatures of two paths of one block.
Similar(left, right) ==
    /\ left.kind = right.kind
    /\ IF left.kind = IMAGE_KIND THEN ImageSimilar(left, right)
       ELSE IF left.kind = VIDEO_KIND THEN VideoSimilar(left, right)
       ELSE FALSE

\* The keys of score_by_pair: the pairs of one block that are similar.
SimilarPairs(sigs, order) ==
    LET blocks == BlockGroups(sigs, order)
        ordered(b) == IdxSeq({blocks[b][i] : i \in DOMAIN blocks[b]})
    IN  UNION {{{ordered(b)[i], ordered(b)[j]} :
                    <<i, j>> \in {ij \in (DOMAIN blocks[b]) \X (DOMAIN blocks[b]) :
                                     /\ ij[1] < ij[2]
                                     /\ Similar(sigs[ordered(b)[ij[1]]][1], sigs[ordered(b)[ij[2]]][1])}} :
               b \in DOMAIN blocks}

\* score_by_pair[pair]
ScoreByPair(sigs, pair) ==
    LET left == CHOOSE p \in pair : \A q \in pair : p <= q
        right == CHOOSE p \in pair : \A q \in pair : q <= p
    IN  Score(sigs[left][1], sigs[right][1])

\* Lines 414-448: the similar pairs in the order in which the loops come to
\* them: block after block, each block sorted, left before right.
SimilarPairList(sigs, order) ==
    LET blocks == BlockGroups(sigs, order)
        of(b) ==
            LET ordered == IdxSeq({blocks[b][i] : i \in DOMAIN blocks[b]})
                n == Len(ordered)
                all == [k \in 1..(n * n) |->
                           <<ordered[((k - 1) \div n) + 1], ordered[((k - 1) % n) + 1]>>]
            IN  SelectSeq(all, LAMBDA pair :
                    pair[1] < pair[2] /\ Similar(sigs[pair[1]][1], sigs[pair[2]][1]))
    IN  Flatten([b \in DOMAIN blocks |-> of(b)])

\* {item: value for item in items}
RECURSIVE DictOf(_, _)
DictOf(items, value) ==
    IF items = <<>> THEN <<>>
    ELSE (Head(items) :> (IF value = "item" THEN Head(items) ELSE 0)) @@ DictOf(Tail(items), value)

\* _UnionFind.__init__
UnionFind(items) ==
    [parent |-> DictOf(items, "item"), rank |-> DictOf(items, "zero")]

\* What _UnionFind.find returns: the root above the item.
RECURSIVE FindRoot(_, _)
FindRoot(parent, item) ==
    IF parent[item] = item THEN item ELSE FindRoot(parent, parent[item])

\* The parents after find: every item on the way up hangs on the root.
RECURSIVE Compress(_, _, _)
Compress(parent, item, root) ==
    IF parent[item] = item THEN parent
    ELSE Compress([parent EXCEPT ![item] = root], parent[item], root)

\* What _UnionFind.find leaves behind.
Find(uf, item) ==
    [uf EXCEPT !.parent = Compress(uf.parent, item, FindRoot(uf.parent, item))]

\* Mutant of Union: the right item is hung on the left item, whatever
\* their roots.
Union_Items(uf, left, right) ==
    [uf EXCEPT !.parent[right] = left]

\* _UnionFind.union
Union(uf, left, right) ==
    LET found == Find(Find(uf, left), right)
        root_left == FindRoot(uf.parent, left)
        root_right == FindRoot(uf.parent, right)
        rank_left == uf.rank[root_left]
        rank_right == uf.rank[root_right]
    IN  IF root_left = root_right THEN found
        ELSE IF rank_left < rank_right
        THEN [found EXCEPT !.parent[root_left] = root_right]
        ELSE IF rank_left > rank_right
        THEN [found EXCEPT !.parent[root_right] = root_left]
        ELSE [found EXCEPT !.parent[root_right] = root_left,
                           !.rank[root_left] = @ + 1]

\* uf after uf.union(left, right) for the similar pairs in their order.
RECURSIVE Unions(_, _)
Unions(uf, pairs) ==
    IF pairs = <<>> THEN uf
    ELSE Unions(Union(uf, Head(pairs)[1], Head(pairs)[2]), Tail(pairs))

\* min() and max() of a non-empty set of numbers.
Min(values) == CHOOSE v \in values : \A w \in values : v <= w

Max(values) == CHOOSE v \in values : \A w \in values : v >= w

\* Mutant of ClusterPaths: the paths are left in the order of the
\* component.
ClusterPaths_Unsorted(paths) ==
    paths

\* cluster_paths = sorted(paths)
ClusterPaths(paths) ==
    IdxSeq({paths[i] : i \in DOMAIN paths})

\* Lines 450-479: the clusters, one per component of more than one path,
\* in the order in which the components come up in signatures_by_path.
Clusters(sigs, order) ==
    LET pairs == SimilarPairs(sigs, order)
        uf == Unions(UnionFind(order), SimilarPairList(sigs, order))
        comps == GroupBy(order, [i \in DOMAIN order |-> FindRoot(uf.parent, order[i])])
        large == SelectSeq(comps, LAMBDA paths : Len(paths) > 1)
    IN  [k \in DOMAIN large |->
            LET cluster_paths == ClusterPaths(large[k])
                inside == {pair \in pairs : pair \subseteq {large[k][i] : i \in DOMAIN large[k]}}
                pair_scores == {ScoreByPair(sigs, pair) : pair \in inside}
            IN  [cluster_id |-> k,
                 paths |-> cluster_paths,
                 score_summary |->
                    [kind |-> sigs[cluster_paths[1]][1].kind,
                     pairs |-> Cardinality(inside),
                     min |-> IF inside # {} THEN Min(pair_scores) ELSE 0,
                     max |-> IF inside # {} THEN Max(pair_scores) ELSE 0]]]

(***************************************************************************)
(* sieve.py and exact.py: a run of walk_many, step by step.                *)
(***************************************************************************)

NoStats == [cache_hits |-> 0, cache_misses |-> 0]

\* Mutant of CacheHitRatio: the fraction of lookups that missed.
CacheHitRatio_Misses(s) ==
    IF s.cache_hits + s.cache_misses <= 0
    THEN <<0, 1>>
    ELSE <<s.cache_misses, s.cache_hits + s.cache_misses>>

\* RunStats.cache_hit_ratio, as the fraction <<numerator, denominator>>.
CacheHitRatio(s) ==
    IF s.cache_hits + s.cache_misses <= 0
    THEN <<0, 1>>
    ELSE <<s.cache_hits, s.cache_hits + s.cache_misses>>

\* The summary of the run that ends: its argument, whether it returned,
\* whether it did so with no move having failed, what it moved, and its
\* cache hit ratio.
Summary(returned, moved, errors) ==
    [base_dirs |-> base_dirs, cache_on |-> cache_on,
     returned |-> returned,
     clean |-> returned /\ errors = {}, moved |-> moved,
     cache_hit_ratio |-> CacheHitRatio(stats)]

\* Before the first run: nothing moved, no run state.
NoRun ==
    /\ dup_store = [p \in Paths |-> Absent]
    /\ durable = EmptyDb
    /\ pc = "idle" /\ run = 0 /\ base_dirs = <<>> /\ cache_on = FALSE
    /\ files = <<>> /\ scanned = [p \in Paths |-> Absent]
    /\ quick_hashes = <<>> /\ full_hashes = <<>>
    /\ work = <<>> /\ work_i = 1
    /\ moved_paths = {} /\ duplicates_moved = <<>>
    /\ anomalies = {} /\ move_errors = {}
    /\ stats = NoStats
    /\ history = <<>>
    /\ media = NoMedia
    /\ pool = <<>>

\* Mode exact: any tree, any mtimes, digests that may collide.
Init ==
    /\ Connect
    /\ disk \in [Paths -> Contents]
    /\ mtime \in [Paths -> Mtimes]
    /\ hq \in HashFunctions
    /\ hf \in HashFunctions
    /\ NoRun
    /\ config = ExactConfig
    /\ probe = NoProbe

\* The base directories a run is given: any list for the first run (one
\* directory in mode media), and the same list again when the command is
\* repeated.
RunArguments ==
    IF run # 0 THEN {base_dirs}
    ELSE IF config.mode = "media" THEN [1..1 -> Dirs]
    ELSE BaseDirLists

\* cache.enabled of the configuration: either value for the first run, and
\* the same value again when the command is repeated.
RunCacheFlags == IF run = 0 THEN BOOLEAN ELSE {cache_on}

\* walk_many, lines 333-367: the scan of the base directories, the early
\* return on an empty inventory, the opening of the cache.
WalkManyScan ==
    /\ pc \in {"idle", "returned", "aborted"}
    /\ run < MaxWalks
    /\ \E dirs \in RunArguments, use_cache \in RunCacheFlags :
          /\ base_dirs' = dirs
          /\ cache_on' = use_cache
          /\ files' = Inventory(dirs)
          /\ pc' = IF Inventory(dirs) = <<>> THEN "returned" ELSE "exact_quick"
          /\ history' =
                IF Inventory(dirs) = <<>>
                THEN Append(history,
                            [base_dirs |-> dirs, cache_on |-> use_cache,
                             returned |-> TRUE,
                             clean |-> TRUE, moved |-> {},
                             cache_hit_ratio |-> CacheHitRatio(NoStats)])
                ELSE history
    /\ run' = run + 1
    /\ scanned' = disk
    /\ quick_hashes' = <<>> /\ full_hashes' = <<>>
    /\ work' = <<>> /\ work_i' = 1
    /\ moved_paths' = {} /\ duplicates_moved' = <<>>
    /\ anomalies' = {} /\ move_errors' = {}
    /\ stats' = NoStats
    /\ media' = NoMedia
    /\ UNCHANGED <<cache_vars, tree_vars, durable, config, probe, pool>>

\* An exception leaves walk_many: the process ends with the cache
\* connection uncommitted, so the cache file keeps its last commit.
Raise ==
    /\ pc' = "aborted"
    /\ db' = durable
    /\ in_txn' = FALSE
    /\ history' = Append(history, Summary(FALSE, moved_paths, move_errors))

\* run_exact_pipeline, lines 183-251: size groups, the early return when no
\* size is shared, the quick digests from the cache or from the files.  An
\* OSError of quick_hash in a worker is re-raised by fut.result().
ExactQuick ==
    /\ pc = "exact_quick"
    /\ IF CandidateFiles = <<>>
       THEN /\ pc' = AfterExact
            /\ UNCHANGED <<db, in_txn, quick_hashes, stats, history>>
       ELSE \E io_error \in BOOLEAN :
               LET out == Hashed(CandidateFiles, "quick_hash")
               IN  IF io_error
                   THEN /\ out.todo # <<>>
                        /\ Raise
                        /\ UNCHANGED <<quick_hashes, stats>>
                   ELSE /\ pc' = "exact_full"
                        /\ db' = out.rows
                        /\ in_txn' = (in_txn \/ out.rows # db)
                        /\ quick_hashes' = out.hashes
                        /\ stats' = [cache_hits |-> out.hits, cache_misses |-> out.misses]
                        /\ UNCHANGED history
    /\ UNCHANGED <<last_op, last_ret, tree_vars, durable, run, base_dirs, cache_on, files, scanned, full_hashes, work, work_i, moved_paths, duplicates_moved, anomalies, move_errors, media_vars>>

\* run_exact_pipeline, lines 253-310: quick groups, the full digests from
\* the cache or from the files, the full groups.
ExactFull ==
    /\ pc = "exact_full"
    /\ \E io_error \in BOOLEAN :
          LET out == Hashed(FullCandidates, "full_hash")
          IN  IF io_error
              THEN /\ out.todo # <<>>
                   /\ Raise
                   /\ UNCHANGED <<full_hashes, work, stats>>
              ELSE /\ pc' = "exact_verify"
                   /\ db' = out.rows
                   /\ in_txn' = (in_txn \/ out.rows # db)
                   /\ full_hashes' = out.hashes
                   /\ work' = WorkList(FullGroups(out.hashes))
                   /\ stats' = [cache_hits |-> out.hits, cache_misses |-> out.misses]
                   /\ UNCHANGED history
    /\ UNCHANGED <<last_op, last_ret, tree_vars, durable, run, base_dirs, cache_on, files, scanned, quick_hashes, work_i, moved_paths, duplicates_moved, anomalies, move_errors, media_vars>>

\* Mutant of AfterMoveError: the handler leaves the loop.
AfterMoveError_Break(i) ==
    Len(work) + 1

\* "except OSError: ... continue" of the move: the loop goes on with the
\* next candidate.
AfterMoveError(i) ==
    i + 1

\* run_exact_pipeline, lines 317-337: one candidate of one full group.
\* compare_files opens both files, and its OSError is not caught; clean_dup
\* moves the candidate, or raises the OSError that is caught and logged.
ExactVerify ==
    /\ pc = "exact_verify"
    /\ work_i <= Len(work)
    /\ LET canonical == work[work_i].canonical
           candidate == work[work_i].candidate
       IN  \E io_error \in BOOLEAN, move_error \in BOOLEAN :
              IF io_error \/ disk[canonical.path] = Absent \/ disk[candidate.path] = Absent
              THEN /\ ~move_error
                   /\ Raise
                   /\ UNCHANGED <<tree_vars, work_i, moved_paths, duplicates_moved, anomalies, move_errors>>
              ELSE IF ~CompareFiles(canonical.path, candidate.path)
              THEN /\ ~move_error
                   /\ anomalies' = anomalies \cup {[canonical |-> canonical.path, candidate |-> candidate.path]}
                   /\ work_i' = work_i + 1
                   /\ UNCHANGED <<db, in_txn, pc, history, tree_vars, moved_paths, duplicates_moved, move_errors>>
              ELSE IF move_error
              THEN /\ move_errors' = move_errors \cup {candidate.path}
                   /\ work_i' = AfterMoveError(work_i)
                   /\ UNCHANGED <<db, in_txn, pc, history, tree_vars, moved_paths, duplicates_moved, anomalies>>
              ELSE /\ disk' = [disk EXCEPT ![candidate.path] = Absent]
                   /\ dup_store' = [dup_store EXCEPT ![candidate.path] = disk[candidate.path]]
                   /\ moved_paths' = moved_paths \cup {candidate.path}
                   /\ duplicates_moved' =
                         Append(duplicates_moved,
                                [source |-> candidate.path,
                                 destination |-> MirrorDestination(candidate.path),
                                 kept |-> canonical.path])
                   /\ work_i' = work_i + 1
                   /\ UNCHANGED <<db, in_txn, pc, history, mtime, hq, hf, anomalies, move_errors>>
    /\ UNCHANGED <<last_op, last_ret, durable, run, base_dirs, cache_on, files, scanned, quick_hashes, full_hashes, work, stats, media_vars>>

\* Mutant of LoopDone: the loops end after the first candidate.
LoopDone_AfterFirst(i) ==
    i > 1

\* The for loops of lines 312-317 are exhausted.
LoopDone(i) ==
    i > Len(work)

\* run_exact_pipeline, lines 339-346: the result is returned to walk_many.
ExactReturn ==
    /\ pc = "exact_verify"
    /\ LoopDone(work_i)
    /\ pc' = AfterExact
    /\ UNCHANGED <<cache_vars, tree_vars, durable, run, base_dirs, cache_on, files, scanned, quick_hashes, full_hashes, work, work_i, moved_paths, duplicates_moved, anomalies, move_errors, stats, history, media_vars>>

\* walk_many, lines 404-417: commit, prune_stale(run_id) and close of the
\* cache, then the return.
WalkManyFinalize ==
    /\ pc = "finalize"
    /\ pc' = "returned"
    /\ IF cache_on
       THEN /\ db' = PruneStale(db, run)
            /\ durable' = PruneStale(db, run)
            /\ in_txn' = FALSE
       ELSE UNCHANGED <<db, durable, in_txn>>
    /\ history' = Append(history, Summary(TRUE, moved_paths, move_errors))
    /\ UNCHANGED <<last_op, last_ret, tree_vars, run, base_dirs, cache_on, files, scanned, quick_hashes, full_hashes, work, work_i, moved_paths, duplicates_moved, anomalies, move_errors, stats, media_vars>>

\* The files a tool may fail on in one run: none, or one of them.
FailureSets(metas) ==
    {{}} \cup {{metas[i].path} : i \in DOMAIN metas}

\* Mutant of ReportOnly: every path of a cluster but its first is moved to
\* the duplicate directory.
ReportOnly_MovesClustered ==
    LET clusters == Clusters(media.signatures_by_path, media.order)
        extra == UNION {{clusters[k].paths[i] : i \in 2..Len(clusters[k].paths)} : k \in DOMAIN clusters}
    IN  /\ disk' = [p \in Paths |-> IF p \in extra THEN Absent ELSE disk[p]]
        /\ dup_store' = [p \in Paths |-> IF p \in extra THEN disk[p] ELSE dup_store[p]]
        /\ moved_paths' = moved_paths \cup extra
        /\ UNCHANGED <<mtime, hq, hf, duplicates_moved>>

\* run_media_pipeline is report-only: it reads the files through the tools
\* and writes to no file, and it reads moved_paths without changing it.
ReportOnly ==
    UNCHANGED <<tree_vars, moved_paths, duplicates_moved>>

\* run_media_pipeline, lines 304-400: the tools are resolved, the
\* candidates are chosen, and their signatures are taken from the cache or
\* computed and stored.  Without the tools, or without a candidate, the
\* pipeline returns at once.
MediaSignatures ==
    /\ pc = "media"
    /\ IF ~ToolsResolved
       THEN /\ pc' = "finalize"
            /\ media' = [NoMedia EXCEPT !.tools_available = FALSE, !.warnings = {"FFmpeg tools unavailable"}]
            /\ UNCHANGED <<db, in_txn>>
       ELSE IF Candidates(files, moved_paths) = <<>>
       THEN /\ pc' = "finalize"
            /\ media' = NoMedia
            /\ UNCHANGED <<db, in_txn>>
       ELSE LET looked ==
                    MediaLookupLoop(Candidates(files, moved_paths), run,
                                    [rows |-> db, sigs |-> <<>>, order |-> <<>>, todo |-> <<>>,
                                     hits |-> 0, misses |-> 0, calls |-> 0, warnings |-> {}])
            IN  \E failed \in FailureSets(looked.todo) :
                   LET out == MediaStoreLoop(looked.todo, run, failed, looked)
                   IN  /\ pc' = "media_cluster"
                       /\ db' = out.rows
                       /\ in_txn' = (in_txn \/ out.rows # db)
                       /\ media' = [NoMedia EXCEPT
                                       !.signatures_by_path = out.sigs,
                                       !.order = out.order,
                                       !.cache_hits = out.hits,
                                       !.cache_misses = out.misses,
                                       !.cache_calls = out.calls,
                                       !.failed = out.warnings]
    /\ ReportOnly
    /\ UNCHANGED <<last_op, last_ret, durable, run, base_dirs, cache_on, files, scanned, quick_hashes, full_hashes, work, work_i, anomalies, move_errors, stats, history, config, probe, pool>>

\* run_media_pipeline, lines 376-385, and _probe_media, lines 160-166:
\* FFprobe exits with 0 on a file and prints what json.loads, or int() of a
\* width or height, cannot read.  The ValueError is none of the exceptions
\* _compute_signature catches, so fut.result() raises it again in
\* _bounded_parallel_map and it leaves run_media_pipeline and walk_many.
MediaSignaturesRaise ==
    /\ pc = "media"
    /\ ToolsResolved
    /\ LET looked ==
               MediaLookupLoop(Candidates(files, moved_paths), run,
                               [rows |-> db, sigs |-> <<>>, order |-> <<>>, todo |-> <<>>,
                                hits |-> 0, misses |-> 0, calls |-> 0, warnings |-> {}])
       IN  \E i \in DOMAIN looked.todo :
              /\ disk[looked.todo[i].path] # Absent
              /\ media' = [NoMedia EXCEPT !.unparsed = {looked.todo[i].path}]
    /\ Raise
    /\ ReportOnly
    /\ UNCHANGED <<last_op, last_ret, durable, run, base_dirs, cache_on, files, scanned, quick_hashes, full_hashes, work, work_i, anomalies, move_errors, stats, config, probe, pool>>

\* run_media_pipeline, lines 402-486, and walk_many, lines 399-401: the
\* blocks, the comparisons, the clusters; the result goes to walk_many,
\* which adds the cache counters to those of the run.
MediaCluster ==
    /\ pc = "media_cluster"
    /\ pc' = "finalize"
    /\ media' = [media EXCEPT
                    !.score_by_pair =
                        [pair \in SimilarPairs(media.signatures_by_path, media.order) |->
                            ScoreByPair(media.signatures_by_path, pair)],
                    !.similar_media_candidates = Clusters(media.signatures_by_path, media.order)]
    /\ stats' = [cache_hits |-> stats.cache_hits + media.cache_hits,
                 cache_misses |-> stats.cache_misses + media.cache_misses]
    /\ ReportOnly
    /\ UNCHANGED <<cache_vars, durable, run, base_dirs, cache_on, files, scanned, quick_hashes, full_hashes, work, work_i, anomalies, move_errors, history, config, probe, pool>>

Next ==
    \/ WalkManyScan
    \/ ExactQuick
    \/ ExactFull
    \/ ExactVerify
    \/ ExactReturn
    \/ WalkManyFinalize

Spec == Init /\ [][Next]_vars

\* The trees of the runs in mode media, one for each way in which the
\* files can share their bytes.
MediaTrees ==
    {d \in [Paths -> Contents] :
        \A p \in Paths : \A c \in 1..(d[p] - 1) : \E q \in 1..(p - 1) : d[q] = c}

\* Mode media: digests that do not collide, one mtime.
InitMedia ==
    /\ Connect
    /\ disk \in MediaTrees
    /\ mtime = [p \in Paths |-> 1]
    /\ hq = [c \in Contents |-> c]
    /\ hf = [c \in Contents |-> c]
    /\ NoRun
    /\ config \in MediaConfigs
    /\ probe \in Probes

NextMedia ==
    \/ WalkManyScan
    \/ ExactQuick
    \/ ExactFull
    \/ ExactVerify
    \/ ExactReturn
    \/ MediaSignatures
    \/ MediaSignaturesRaise
    \/ MediaCluster
    \/ WalkManyFinalize

SpecMedia == InitMedia /\ [][NextMedia]_vars

\* str(meta.size) for the sizes of the tree.
Str(n) ==
    CASE n = 0 -> "0" [] n = 1 -> "1" [] n = 2 -> "2" [] n = 3 -> "3" [] OTHER -> "many"

\* Mutant of Data: the moved files are listed too.
Data_WithMoved(metas, moved) ==
    LET keys == {Str(metas[i].size) : i \in DOMAIN metas}
    IN  [key \in keys |->
            LET under == SelectSeq(metas, LAMBDA meta : Str(meta.size) = key)
            IN  [k \in DOMAIN under |-> under[k].path]]

\* walk_many, lines 411-417: self.data, the paths that were not moved,
\* each appended to the list under the text of its size.
Data(metas, moved) ==
    LET left == SelectSeq(metas, LAMBDA meta : meta.path \notin moved)
        keys == {Str(left[i].size) : i \in DOMAIN left}
    IN  [key \in keys |->
            LET under == SelectSeq(left, LAMBDA meta : Str(meta.size) = key)
            IN  [k \in DOMAIN under |-> under[k].path]]

(***************************************************************************)
(* exact.py: run_exact_pipeline called twice on equal trees, the second    *)
(* time with the records in another order.                                 *)
(***************************************************************************)

\* The lists that hold the entries of a list in any order.
Reordered(seq) ==
    {[i \in DOMAIN seq |-> seq[p[i]]] : p \in Permutations(DOMAIN seq)}

\* The files argument of the second call: the records of the first call in
\* any order.
CallArguments ==
    Reordered(files)

\* run_exact_pipeline, lines 167-181: a call with cache = None.  The second
\* call finds the tree as the first one found it.
ExactCall ==
    /\ pc \in {"idle", "returned", "aborted"}
    /\ run < MaxWalks
    /\ IF run = 0
       THEN /\ \E dirs \in BaseDirLists :
                  /\ base_dirs' = dirs
                  /\ files' = Inventory(dirs)
            /\ scanned' = disk
            /\ UNCHANGED <<disk, dup_store>>
       ELSE /\ files' \in CallArguments
            /\ disk' = scanned
            /\ dup_store' = [p \in Paths |-> Absent]
            /\ UNCHANGED <<scanned, base_dirs>>
    /\ run' = run + 1
    /\ pc' = "exact_quick"
    /\ quick_hashes' = <<>> /\ full_hashes' = <<>>
    /\ work' = <<>> /\ work_i' = 1
    /\ moved_paths' = {} /\ duplicates_moved' = <<>>
    /\ anomalies' = {} /\ move_errors' = {}
    /\ stats' = NoStats
    /\ UNCHANGED <<cache_vars, mtime, hq, hf, durable, cache_on, history, media_vars>>

\* The hashing stages when every file that is there can be read.
QuietQuick == ExactQuick /\ pc' # "aborted"

QuietFull == ExactFull /\ pc' # "aborted"

\* The verification loop when every file that is there can be read and
\* moved: compare_files raises only for a file that is gone.
QuietVerify ==
    /\ ExactVerify
    /\ move_errors' = {}
    /\ pc' = "aborted" =>
          \/ disk[work[work_i].canonical.path] = Absent
          \/ disk[work[work_i].candidate.path] = Absent

\* ExactPipelineResult, lines 339-346: what the call returns.
ExactResult ==
    /\ pc = "finalize"
    /\ pc' = "returned"
    /\ history' = Append(history,
                         [returned |-> TRUE, moved |-> moved_paths,
                          duplicates |-> {<<r.source, r.kept>> : r \in {duplicates_moved[i] : i \in DOMAIN duplicates_moved}}])
    /\ UNCHANGED <<cache_vars, tree_vars, durable, run, base_dirs, cache_on, files, scanned, quick_hashes, full_hashes, work, work_i, moved_paths, duplicates_moved, anomalies, move_errors, stats, media_vars>>

\* Any tree and any mtimes, one digest function for both stages.
InitOrder ==
    /\ Init
    /\ hq = hf

NextOrder ==
    \/ ExactCall
    \/ QuietQuick
    \/ QuietFull
    \/ QuietVerify
    \/ ExactReturn
    \/ ExactResult

SpecOrder == InitOrder /\ [][NextOrder]_vars

(***************************************************************************)
(* sieve.py: the constructor of Sieve.                                     *)
(***************************************************************************)

\* Python values: None, an int, a float that has the value of an int, a
\* str.
PyNone == [type |-> "NoneType", int |-> 0, str |-> ""]

PyInt(n) == [type |-> "int", int |-> n, str |-> ""]

PyFloat(n) == [type |-> "float", int |-> n, str |-> ""]

PyStr(s) == [type |-> "str", int |-> 0, str |-> s]

\* What stands for the ValueError of int().
PyValueError == [type |-> "ValueError", int |-> 0, str |-> ""]

\* The keyword arguments of Sieve.__init__ that have a key in the config
\* file: the integers, and the strings.
IntKeys ==
    {"hash_workers", "media_workers", "image_hamming_threshold",
     "video_hamming_threshold", "video_frame_hamming_threshold",
     "duration_bucket_seconds"}

StrKeys == {"dup_dir", "mode", "cache_db", "ffmpeg_path", "ffprobe_path"}

Keys == IntKeys \cup StrKeys

\* os.cpu_count() of the machine.
CpuCount == 1

DEFAULT_HASH_WORKERS == Min({16, Max({4, CpuCount * 2})})

DEFAULT_MEDIA_WORKERS == Max({2, CpuCount \div 2})

DEFAULT_IMAGE_HAMMING_THRESHOLD == 8

DEFAULT_VIDEO_HAMMING_THRESHOLD == 32

DEFAULT_VIDEO_FRAME_HAMMING_THRESHOLD == 12

DEFAULT_DURATION_BUCKET_SECONDS == 2

\* Lines 145-156: the built-in defaults.
Defaults ==
    [k \in Keys |->
        CASE k = "dup_dir" -> PyStr("/tmp/sieve/dups")
          [] k = "mode" -> PyStr("media")
          [] k = "cache_db" -> PyStr(".filesieve-cache.sqlite")
          [] k = "hash_workers" -> PyInt(DEFAULT_HASH_WORKERS)
          [] k = "media_workers" -> PyInt(DEFAULT_MEDIA_WORKERS)
          [] k = "image_hamming_threshold" -> PyInt(DEFAULT_IMAGE_HAMMING_THRESHOLD)
          [] k = "video_hamming_threshold" -> PyInt(DEFAULT_VIDEO_HAMMING_THRESHOLD)
          [] k = "video_frame_hamming_threshold" -> PyInt(DEFAULT_VIDEO_FRAME_HAMMING_THRESHOLD)
          [] k = "duration_bucket_seconds" -> PyInt(DEFAULT_DURATION_BUCKET_SECONDS)
          [] OTHER -> PyNone]

\* int(text) of a text of the config file: surrounding blanks and a sign
\* are accepted, anything else than digits is a ValueError.
ParseInt(text) ==
    CASE text = "0" -> PyInt(0)
      [] text = "1" -> PyInt(1)
      [] text = " 3 " -> PyInt(3)
      [] text = "-1" -> PyInt(0 - 1)
      [] OTHER -> PyValueError

\* The values a caller gives for a key, None when the argument is left
\* out.
ArgValues(k) ==
    CASE k \in IntKeys -> {PyInt(0 - 1), PyInt(0), PyInt(1), PyInt(3), PyFloat(3)}
      [] k = "mode" -> {PyStr("exact"), PyStr("media"), PyStr("fast")}
      [] k = "dup_dir" -> {PyStr("/d"), PyStr("dups")}
      [] OTHER -> {PyStr("a")}

\* The texts a config file gives for a key.
FileValues(k) ==
    CASE k \in IntKeys -> {"0", "1", " 3 ", "-1", "x"}
      [] k = "mode" -> {"exact", "media", "fast"}
      [] k = "dup_dir" -> {"/d", "dups"}
      [] OTHER -> {"b"}

\* At most this many keys are given by the caller and by the file together.
MaxGiven == 2

\* The maps from the keys to values of them.
Choices(keys, given_in) ==
    LET Values(k) == IF given_in = "args" THEN ArgValues(k) ELSE FileValues(k)
    IN  {f \in [keys -> UNION {Values(k) : k \in keys}] :
            \A k \in keys : f[k] \in Values(k)}

\* What the file system has at the resolved path of the duplicate
\* directory.
DirStates == {"absent", "uncreatable", "file", "dir", "readonly_dir"}

\* os.path.abspath with the working directory /cwd.
Abspath(path) ==
    CASE path = "dups" -> "/cwd/dups"
      [] path = ".filesieve-cache.sqlite" -> "/cwd/.filesieve-cache.sqlite"
      [] path = "a" -> "/cwd/a"
      [] path = "b" -> "/cwd/b"
      [] OTHER -> path

\* config.get(section, key, fallback=...), and int() of it for the
\* integers: lines 158-205.
FromFile(file, k, fallback) ==
    IF k \notin DOMAIN file THEN fallback
    ELSE IF k \in IntKeys THEN ParseInt(file[k])
    ELSE PyStr(file[k])

\* Mutant of Merged: a key of the file overrides the argument.
Merged_FileWins(args, file) ==
    [k \in Keys |->
        IF k \in DOMAIN file THEN FromFile(file, k, Defaults[k])
        ELSE IF k \in DOMAIN args THEN args[k]
        ELSE Defaults[k]]

\* Lines 145-228: the defaults, overwritten by the file, overwritten by the
\* arguments that are not None.
Merged(args, file) ==
    LET from_file == [k \in Keys |-> FromFile(file, k, Defaults[k])]
    IN  [k \in Keys |-> IF k \in DOMAIN args THEN args[k] ELSE from_file[k]]

\* An int() of lines 161-205 raised.
FileUnreadable(file) ==
    \E k \in DOMAIN file \cap IntKeys : ParseInt(file[k]) = PyValueError

\* __validate_dup_dir: the path is a writable directory, made if need be.
ValidateDupDir(state) ==
    state \in {"absent", "dir"}

\* __validate_mode
ValidateMode(mode) ==
    mode \in {PyStr("exact"), PyStr("media")}

\* Mutant of ValidatePositiveInt: zero is let through.
ValidatePositiveInt_ZeroToo(value) ==
    value.type = "int" /\ ~(value.int < 0)

\* __validate_positive_int
ValidatePositiveInt(value) ==
    value.type = "int" /\ ~(value.int <= 0)

\* __validate_non_negative_int
ValidateNonNegativeInt(value) ==
    value.type = "int" /\ ~(value.int < 0)

\* Lines 230-250: every validator lets its value through.
Validated(merged, state) ==
    /\ ValidateDupDir(state)
    /\ ValidateMode(merged["mode"])
    /\ ValidatePositiveInt(merged["hash_workers"])
    /\ ValidatePositiveInt(merged["media_workers"])
    /\ ValidateNonNegativeInt(merged["image_hamming_threshold"])
    /\ ValidateNonNegativeInt(merged["video_hamming_threshold"])
    /\ ValidateNonNegativeInt(merged["video_frame_hamming_threshold"])
    /\ ValidatePositiveInt(merged["duration_bucket_seconds"])

\* The attributes of the Sieve: dup_dir and cache_db are resolved, cache_db
\* is None when no_cache is given.
Attributes(merged, no_cache) ==
    [k \in Keys |->
        CASE k = "dup_dir" -> PyStr(Abspath(merged[k].str))
          [] k = "cache_db" -> IF no_cache THEN PyNone ELSE PyStr(Abspath(merged[k].str))
          [] OTHER -> merged[k]]

\* Before Sieve(...) is called: the arguments, the config file, the state
\* of the duplicate directory.
ConfigInit ==
    /\ Connect
    /\ disk = <<>> /\ mtime = <<>> /\ hq = <<>> /\ hf = <<>>
    /\ dup_store = <<>> /\ durable = EmptyDb
    /\ pc = "idle" /\ run = 0 /\ base_dirs = <<>> /\ cache_on = FALSE
    /\ files = <<>> /\ scanned = <<>>
    /\ quick_hashes = <<>> /\ full_hashes = <<>>
    /\ work = <<>> /\ work_i = 1
    /\ moved_paths = {} /\ duplicates_moved = <<>>
    /\ anomalies = {} /\ move_errors = {}
    /\ stats = NoStats
    /\ history = <<>>
    /\ probe = <<>> /\ media = <<>> /\ pool = <<>>
    /\ \E from_caller \in SUBSET Keys, from_file \in SUBSET Keys :
          /\ Cardinality(from_caller) + Cardinality(from_file) <= MaxGiven
          /\ \E args \in Choices(from_caller, "args"), file \in Choices(from_file, "file"), state \in DirStates, no_cache \in BOOLEAN :
                config = [stage |-> "args", args |-> args, file |-> file,
                          no_cache |-> no_cache, dir |-> state, attrs |-> <<>>]

\* Sieve.__init__: the Sieve with its attributes, or the ValueError.
Construct ==
    /\ config.stage = "args"
    /\ LET merged == Merged(config.args, config.file)
       IN  IF FileUnreadable(config.file) \/ ~Validated(merged, config.dir)
           THEN config' = [config EXCEPT !.stage = "rejected"]
           ELSE config' = [config EXCEPT
                              !.stage = "built",
                              !.dir = "dir",
                              !.attrs = Attributes(merged, config.no_cache)]
    /\ UNCHANGED <<cache_vars, tree_vars, durable, run_vars, probe, media, pool>>

\* walk_many of the Sieve over base directories that hold no file: the
\* return of lines 360-362.
WalkNothing ==
    /\ config.stage = "built"
    /\ run < MaxWalks
    /\ run' = run + 1
    /\ pc' = "returned"
    /\ UNCHANGED <<cache_vars, tree_vars, durable, base_dirs, cache_on, files, scanned, quick_hashes, full_hashes, work, work_i, moved_paths, duplicates_moved, anomalies, move_errors, stats, history, media_vars>>

NextConfig ==
    \/ Construct
    \/ WalkNothing

SpecConfig == ConfigInit /\ [][NextConfig]_vars

(***************************************************************************)
(* exact.py: _mirror_destination and clean_dup on path strings.  A path is *)
(* the sequence of its characters; "drive_" stands for its six characters. *)
(***************************************************************************)

\* The longest source path.
MaxPathLen == 5

Platforms == {"posix", "nt"}

\* os.sep
Sep(platform) == IF platform = "nt" THEN "\\" ELSE "/"

\* s.startswith(prefix)
StartsWith(s, prefix) ==
    Len(s) >= Len(prefix) /\ SubSeq(s, 1, Len(prefix)) = prefix

\* s.lstrip(ch)
RECURSIVE Lstrip(_, _)
Lstrip(s, ch) ==
    IF s # <<>> /\ Head(s) = ch THEN Lstrip(Tail(s), ch) ELSE s

\* s.rstrip(ch)
RECURSIVE Rstrip(_, _)
Rstrip(s, ch) ==
    IF s # <<>> /\ s[Len(s)] = ch THEN Rstrip(SubSeq(s, 1, Len(s) - 1), ch) ELSE s

\* s.replace(ch, "")
Replace(s, ch) == SelectSeq(s, LAMBDA c : c # ch)

\* s.split(sep)
RECURSIVE Split(_, _)
Split(s, sep) ==
    IF \A i \in DOMAIN s : s[i] # sep THEN <<s>>
    ELSE LET i == CHOOSE k \in DOMAIN s : s[k] = sep /\ \A j \in 1..(k - 1) : s[j] # sep
         IN  <<SubSeq(s, 1, i - 1)>> \o Split(SubSeq(s, i + 1, Len(s)), sep)

\* sep.join(parts)
RECURSIVE JoinWith(_, _)
JoinWith(parts, sep) ==
    IF parts = <<>> THEN <<>>
    ELSE IF Len(parts) = 1 THEN parts[1]
    ELSE parts[1] \o <<sep>> \o JoinWith(Tail(parts), sep)

\* os.path.splitdrive: the drive letter with its colon on nt, no drive on
\* posix.
Splitdrive(platform, path) ==
    IF platform = "nt" /\ Len(path) >= 2 /\ path[2] = ":"
    THEN <<SubSeq(path, 1, 2), SubSeq(path, 3, Len(path))>>
    ELSE <<<<>>, path>>

\* os.path.normpath of a path without "." and "..": runs of separators
\* become one, none is left at the end; posix keeps exactly two leading
\* slashes.
Normpath(platform, path) ==
    LET sep == Sep(platform)
        parts == Splitdrive(platform, path)
        comps == SelectSeq(Split(parts[2], sep), LAMBDA c : c # <<>>)
        leading == Len(parts[2]) - Len(Lstrip(parts[2], sep))
        root == IF leading = 0 THEN <<>>
                ELSE IF platform = "posix" /\ leading = 2 THEN <<sep, sep>>
                ELSE <<sep>>
    IN  parts[1] \o root \o JoinWith(comps, sep)

\* os.path.isabs
Isabs(platform, path) ==
    StartsWith(Splitdrive(platform, path)[2], <<Sep(platform)>>)

\* os.path.abspath of an absolute path.
AbspathOf(platform, path) == Normpath(platform, path)

\* os.path.join of two paths.
Join(platform, a, b) ==
    IF Isabs(platform, b) \/ Splitdrive(platform, b)[1] # <<>> THEN b
    ELSE IF a = <<>> \/ a[Len(a)] = Sep(platform) \/ a[Len(a)] = ":" THEN a \o b
    ELSE a \o <<Sep(platform)>> \o b

\* Mutant of MirrorPath: the file goes into the duplicate directory under
\* its base name.
MirrorPath_BaseName(platform, source_file, dup_dir) ==
    LET comps == Split(source_file, Sep(platform))
    IN  Join(platform, dup_dir, comps[Len(comps)])

\* _mirror_destination
MirrorPath(platform, source_file, dup_dir) ==
    LET source_abs == AbspathOf(platform, source_file)
        drive == Splitdrive(platform, source_abs)[1]
        tail == Lstrip(Lstrip(Splitdrive(platform, source_abs)[2], Sep(platform)), "/")
        drive_token == Replace(Rstrip(drive, ":"), ":")
        rel_path == IF drive # <<>>
                    THEN Join(platform, <<"drive_">> \o drive_token, tail)
                    ELSE tail
    IN  Join(platform, dup_dir, rel_path)

\* The file a path names: Linux reads two leading slashes as one.
Resolve(platform, path) ==
    IF platform = "posix" /\ StartsWith(path, <<"/", "/">>) THEN Tail(path) ELSE path

\* The characters of the source paths, and the absolute source paths that
\* os.path.abspath leaves as they are.
PathChars(platform) == {Sep(platform), "a", "b"}

SourcePaths(platform) ==
    LET Texts == UNION {[1..n -> PathChars(platform)] : n \in 1..MaxPathLen}
        drives == IF platform = "nt" THEN {<<"C", ":">>, <<"D", ":">>} ELSE {<<>>}
    IN  UNION {{drive \o t : t \in {u \in Texts : /\ Len(drive) + Len(u) <= MaxPathLen
                                                   /\ StartsWith(u, <<Sep(platform)>>)
                                                   /\ u[Len(u)] # Sep(platform)
                                                   /\ Normpath(platform, u) = u}} :
               drive \in drives}

\* The duplicate directory of the platform.
DupDirOf(platform) ==
    IF platform = "nt" THEN <<"C", ":", "\\", "d">> ELSE <<"/", "d">>

\* A directory on the way down to the path is a file.
Blocked(platform, fs, path) ==
    \E n \in 1..(Len(path) - 1) :
        /\ path[n + 1] = Sep(platform)
        /\ SubSeq(path, 1, n) \in DOMAIN fs

\* Two source files outside the duplicate directory, each with its own
\* bytes, to be moved one after the other.
MirrorInit ==
    /\ Connect
    /\ mtime = <<>> /\ hq = <<>> /\ hf = <<>>
    /\ dup_store = <<>> /\ durable = EmptyDb
    /\ pc = "clean_dup" /\ run = 0 /\ base_dirs = <<>> /\ cache_on = FALSE
    /\ scanned = <<>>
    /\ quick_hashes = <<>> /\ full_hashes = <<>>
    /\ work = <<>> /\ work_i = 1
    /\ moved_paths = {} /\ duplicates_moved = <<>>
    /\ anomalies = {} /\ move_errors = {}
    /\ stats = NoStats
    /\ history = <<>>
    /\ probe = <<>> /\ media = <<>> /\ pool = <<>>
    /\ \E platform \in Platforms :
          \E first \in SourcePaths(platform), second \in SourcePaths(platform) :
             LET names == {Resolve(platform, first), Resolve(platform, second)}
             IN  /\ first # second
                 /\ config = [platform |-> platform, dup_dir |-> DupDirOf(platform)]
                 /\ files = <<first, second>>
                 /\ \A p \in names : ~Blocked(platform, [q \in names |-> 0], p)
                 /\ disk = [p \in names |->
                               IF p = Resolve(platform, first) THEN 1 ELSE 2]

\* clean_dup(dup_file, dup_dir) of the next source: makedirs, shutil.move.
\* os.rename puts the file in the place of a file that is at the
\* destination; an OSError leaves the call.
CleanDup ==
    /\ pc = "clean_dup"
    /\ work_i <= Len(files)
    /\ LET platform == config.platform
           dup_file == files[work_i]
           dest == MirrorPath(platform, dup_file, config.dup_dir)
           source == Resolve(platform, dup_file)
           target == Resolve(platform, dest)
       IN  IF \/ source \notin DOMAIN disk
              \/ Blocked(platform, disk, target)
           THEN /\ move_errors' = move_errors \cup {dup_file}
                /\ UNCHANGED <<disk, duplicates_moved, moved_paths>>
           ELSE /\ disk' = [p \in (DOMAIN disk \ {source}) \cup {target} |->
                               IF p = target THEN disk[source] ELSE disk[p]]
                /\ duplicates_moved' =
                      Append(duplicates_moved,
                             [source |-> dup_file, destination |-> dest,
                              bytes |-> disk[source]])
                /\ moved_paths' = moved_paths \cup {dup_file}
                /\ UNCHANGED move_errors
    /\ work_i' = work_i + 1
    /\ UNCHANGED <<cache_vars, mtime, hq, hf, dup_store, durable, pc, run, base_dirs, cache_on, files, scanned, quick_hashes, full_hashes, work, anomalies, stats, history, media_vars>>

NextMirror == CleanDup

SpecMirror == MirrorInit /\ [][NextMirror]_vars

(***************************************************************************)
(* sieve.py: _scan_base_dir on path strings, with a duplicate directory    *)
(* that may lie inside the base directory.                                 *)
(***************************************************************************)

\* The deepest directory of the scanned trees.
MaxDepth == 2

\* The drive (nt) or nothing (posix) in front of every path of the tree.
TreeDrive(platform) == IF platform = "nt" THEN <<"C", ":">> ELSE <<>>

\* The directories of the tree, the root included, by their resolved path.
TreeDirs(platform) ==
    LET sep == Sep(platform)
        names == UNION {[1..n -> {<<"a">>, <<"d">>}] : n \in 1..MaxDepth}
    IN  {TreeDrive(platform) \o <<sep>>}
        \cup {TreeDrive(platform) \o <<sep>> \o JoinWith(comps, sep) : comps \in names}

\* The files the tree may hold: one name in every directory.
TreeFiles(platform) ==
    {Join(platform, dir, <<"x">>) : dir \in TreeDirs(platform)}

\* The ways a directory is named in an argument: by its resolved path, and
\* on posix with two leading slashes or a trailing one.
Spellings(platform, dir) ==
    IF platform = "nt" THEN {dir}
    ELSE {dir, <<"/">> \o dir} \cup (IF Len(dir) > 1 THEN {dir \o <<"/">>} ELSE {})

\* path == self.dup_dir or path.startswith(dup_dir_prefix)
InDupDir(platform, path, dup_dir) ==
    path = dup_dir \/ StartsWith(path, dup_dir \o <<Sep(platform)>>)

\* The path of the file below the directory, relative to the directory.
RelativeTo(platform, file, dir) ==
    IF dir[Len(dir)] = Sep(platform) THEN SubSeq(file, Len(dir) + 1, Len(file))
    ELSE SubSeq(file, Len(dir) + 2, Len(file))

\* Sieve._scan_base_dir: the paths of the inventory.  entry.path is the
\* path of the directory that is read, joined with the name of the entry,
\* so every path begins as abspath(base_dir) does.
ScanBaseDirPaths(platform, base_dir, dup_dir, fs) ==
    LET top == AbspathOf(platform, base_dir)
        here == Resolve(platform, top)
        below == {f \in DOMAIN fs : f # here /\ StartsWith(f, Rstrip(here, Sep(platform)) \o <<Sep(platform)>>)}
        paths == {AbspathOf(platform, Join(platform, top, RelativeTo(platform, f, here))) : f \in below}
    IN  {path \in paths : ~InDupDir(platform, path, dup_dir)}

\* A tree of at most three files, a duplicate directory that is a directory
\* of the tree but not its root, and a base directory, each named in one of
\* the ways the platform reads as that directory.
ScanInit ==
    /\ Connect
    /\ mtime = <<>> /\ hq = <<>> /\ hf = <<>>
    /\ dup_store = <<>> /\ durable = EmptyDb
    /\ pc = "scan" /\ run = 0 /\ cache_on = FALSE
    /\ files = {} /\ scanned = <<>>
    /\ quick_hashes = <<>> /\ full_hashes = <<>>
    /\ work = <<>> /\ work_i = 1
    /\ moved_paths = {} /\ duplicates_moved = <<>>
    /\ anomalies = {} /\ move_errors = {}
    /\ stats = NoStats
    /\ history = <<>>
    /\ probe = <<>> /\ media = <<>> /\ pool = <<>>
    /\ \E platform \in Platforms :
          \E base \in TreeDirs(platform), dup \in TreeDirs(platform), present \in SUBSET TreeFiles(platform) :
             /\ Len(dup) > Len(TreeDrive(platform)) + 1
             /\ Cardinality(present) \in 1..3
             /\ \E base_dir \in Spellings(platform, base), dup_dir \in Spellings(platform, dup) :
                   /\ base_dirs = <<base_dir>>
                   /\ config = [platform |-> platform, dup_dir |-> AbspathOf(platform, dup_dir)]
             /\ disk = [f \in present |-> 1]

\* walk_many, lines 352-357: files.extend(self._scan_base_dir(base_dir))
ScanStrings ==
    /\ pc = "scan"
    /\ pc' = "scanned"
    /\ files' = ScanBaseDirPaths(config.platform, base_dirs[1], config.dup_dir, disk)
    /\ UNCHANGED <<cache_vars, tree_vars, durable, run, base_dirs, cache_on, scanned, quick_hashes, full_hashes, work, work_i, moved_paths, duplicates_moved, anomalies, move_errors, stats, history, media_vars>>

NextScan == ScanStrings

SpecScan == ScanInit /\ [][NextScan]_vars

(***************************************************************************)
(* exact.py: quick_hash, read by read.  The file is the sequence of its    *)
(* bytes.                                                                  *)
(***************************************************************************)

\* The longest file and the largest sample_size.
MaxFileSize == 4

MaxSample == 3

\* hashlib.blake2b(data, digest_size=n).hexdigest(): digests are equal
\* exactly when the bytes and the digest size are.
Blake2b(data, digest_size) == [data |-> data, digest_size |-> digest_size]

\* Mutant of ClampOffset: a negative offset is let through.
ClampOffset_NoFloor(offset, size, sample_size) ==
    LET max_start == Max({0, size - sample_size})
    IN  Min({offset, max_start})

\* _clamp_offset
ClampOffset(offset, size, sample_size) ==
    LET max_start == Max({0, size - sample_size})
    IN  Min({Max({offset, 0}), max_start})

\* list(dict.fromkeys(offsets)): each value once, in the order of its
\* first occurrence.
RECURSIVE FromKeys(_)
FromKeys(offsets) ==
    IF offsets = <<>> THEN <<>>
    ELSE LET front == FromKeys(SubSeq(offsets, 1, Len(offsets) - 1))
             last == offsets[Len(offsets)]
         IN  IF \E i \in DOMAIN front : front[i] = last THEN front
             ELSE Append(front, last)

\* fh.seek(offset); fh.read(sample_size): the bytes from the offset on, as
\* many as the file has, sample_size at most.
ReadAt(bytes, offset, sample_size) ==
    SubSeq(bytes, offset + 1, Min({offset + sample_size, Len(bytes)}))

\* A call of quick_hash: a file of any bytes, a size argument that is the
\* size of the file or the size it had when it was scanned, any
\* sample_size.
QuickHashInit ==
    /\ Connect
    /\ mtime = <<>> /\ hq = <<>> /\ hf = <<>>
    /\ dup_store = <<>> /\ durable = EmptyDb
    /\ pc = "quick_hash" /\ run = 0 /\ base_dirs = <<>> /\ cache_on = FALSE
    /\ files = <<>> /\ scanned = <<>>
    /\ quick_hashes = <<>> /\ full_hashes = <<>>
    /\ work_i = 1
    /\ moved_paths = {} /\ duplicates_moved = <<>>
    /\ anomalies = {} /\ move_errors = {}
    /\ stats = NoStats
    /\ history = <<>>
    /\ config = <<>> /\ probe = <<>> /\ media = <<>> /\ pool = <<>>
    /\ disk \in UNION {[1..n -> {0, 1}] : n \in 0..MaxFileSize}
    /\ \E size \in 0..MaxFileSize, sample_size \in 1..MaxSample :
          work = [size |-> size, sample_size |-> sample_size,
                  unique_offsets |-> <<>>, reads |-> <<>>,
                  bytes_read |-> 0, hasher |-> <<>>]

\* quick_hash, lines 93-102: the offsets, the hasher, the file is opened.
QuickHashOpen ==
    /\ pc = "quick_hash"
    /\ pc' = "reading"
    /\ work' = [work EXCEPT
                  !.unique_offsets =
                      FromKeys(<<ClampOffset(0, work.size, work.sample_size),
                                 ClampOffset(work.size \div 2, work.size, work.sample_size),
                                 ClampOffset(work.size - work.sample_size, work.size, work.sample_size)>>)]
    /\ work_i' = 1
    /\ UNCHANGED <<cache_vars, tree_vars, durable, run, base_dirs, cache_on, files, scanned, quick_hashes, full_hashes, moved_paths, duplicates_moved, anomalies, move_errors, stats, history, media_vars>>

\* quick_hash, lines 103-107: one round of the loop over unique_offsets.
QuickHashRead ==
    /\ pc = "reading"
    /\ work_i <= Len(work.unique_offsets)
    /\ LET offset == work.unique_offsets[work_i]
           chunk == ReadAt(disk, offset, work.sample_size)
       IN  work' = [work EXCEPT
                      !.reads = Append(@, [offset |-> offset, chunk |-> chunk]),
                      !.bytes_read = @ + Len(chunk),
                      !.hasher = @ \o chunk]
    /\ work_i' = work_i + 1
    /\ UNCHANGED <<cache_vars, tree_vars, durable, pc, run, base_dirs, cache_on, files, scanned, quick_hashes, full_hashes, moved_paths, duplicates_moved, anomalies, move_errors, stats, history, media_vars>>

\* quick_hash, line 108: return hasher.hexdigest(), bytes_read
QuickHashReturn ==
    /\ pc = "reading"
    /\ work_i > Len(work.unique_offsets)
    /\ pc' = "hashed"
    /\ quick_hashes' = <<Blake2b(work.hasher, 16), work.bytes_read>>
    /\ UNCHANGED <<cache_vars, tree_vars, durable, run, base_dirs, cache_on, files, scanned, full_hashes, work, work_i, moved_paths, duplicates_moved, anomalies, move_errors, stats, history, media_vars>>

NextQuickHash ==
    \/ QuickHashOpen
    \/ QuickHashRead
    \/ QuickHashReturn

SpecQuickHash == QuickHashInit /\ [][NextQuickHash]_vars

(***************************************************************************)
(* exact.py and media.py: _bounded_parallel_map.                           *)
(***************************************************************************)

\* The most workers.
MaxWorkers == 2

\* MAX_IN_FLIGHT_MULTIPLIER of the two modules.
ExactMultiplier == 4
MediaMultiplier == 2

Multiplier(module) == IF module = "exact" THEN ExactMultiplier ELSE MediaMultiplier

\* The longest item list: one item more than the pool of the module holds
\* at once.
MaxItems(module) == Multiplier(module) * MaxWorkers + 1

\* fn(item): what the task of the item gives.
TaskResult(item) == <<"result", item>>

\* Mutant of MaxInFlight: one task more than the product.
MaxInFlight_OneMore(workers, multiplier) ==
    workers * multiplier + 1

\* max_in_flight = max(1, workers * MAX_IN_FLIGHT_MULTIPLIER)
MaxInFlight(workers, multiplier) ==
    Max({1, workers * multiplier})

\* Mutant of NextItem: the iterator gives every second item.
NextItem_Skips(items, position) ==
    IF position + 1 > Len(items) THEN NULL ELSE items[position + 1]

\* next(iterator, None) of an iterator that has given position - 1 items.
NextItem(items, position) ==
    IF position > Len(items) THEN NULL ELSE items[position]

\* The tasks the executor runs: the first `workers` of the tasks that were
\* submitted and have not finished, in the order of submission.
Running ==
    {f \in pool.futures \ pool.finished :
        Cardinality({g \in pool.futures \ pool.finished : g < f}) < pool.workers}

\* Before the call: any list of items that are not None, any number of
\* workers, either module.
PoolInit ==
    /\ Connect
    /\ disk = <<>> /\ mtime = <<>> /\ hq = <<>> /\ hf = <<>>
    /\ dup_store = <<>> /\ durable = EmptyDb
    /\ pc = "idle" /\ run = 0 /\ base_dirs = <<>> /\ cache_on = FALSE
    /\ files = <<>> /\ scanned = <<>>
    /\ quick_hashes = <<>> /\ full_hashes = <<>>
    /\ work = <<>> /\ work_i = 1
    /\ moved_paths = {} /\ duplicates_moved = <<>>
    /\ anomalies = {} /\ move_errors = {}
    /\ stats = NoStats
    /\ history = <<>>
    /\ config = <<>> /\ probe = <<>> /\ media = <<>>
    /\ \E module \in {"exact", "media"}, workers \in 1..MaxWorkers :
        \E n \in 0..MaxItems(module) :
          pool = [pc |-> "call", module |-> module, workers |-> workers,
                  item_list |-> [i \in 1..n |-> i],
                  position |-> 1, fill |-> 0,
                  futures |-> {}, finished |-> {}, done |-> {},
                  results |-> <<>>]

\* Lines 57-66: the empty list, the sequential branch, the start of the
\* pool.
PoolCall ==
    /\ pool.pc = "call"
    /\ pool' =
          IF pool.item_list = <<>>
          THEN [pool EXCEPT !.pc = "returned"]
          ELSE IF pool.workers <= 1
          THEN [pool EXCEPT
                  !.pc = "returned",
                  !.results = [i \in DOMAIN pool.item_list |->
                                  <<pool.item_list[i], TaskResult(pool.item_list[i])>>]]
          ELSE [pool EXCEPT
                  !.pc = "fill",
                  !.fill = Min({MaxInFlight(pool.workers, Multiplier(pool.module)),
                                Len(pool.item_list)})]
    /\ UNCHANGED <<cache_vars, tree_vars, durable, run_vars, config, probe, media>>

\* Lines 69-73: one round of the loop that fills the pool.
PoolFill ==
    /\ pool.pc = "fill"
    /\ LET item == NextItem(pool.item_list, pool.position)
       IN  pool' =
              IF pool.fill = 0 \/ item = NULL
              THEN [pool EXCEPT !.pc = "wait"]
              ELSE [pool EXCEPT
                      !.fill = @ - 1,
                      !.position = @ + 1,
                      !.futures = @ \cup {item}]
    /\ UNCHANGED <<cache_vars, tree_vars, durable, run_vars, config, probe, media>>

\* A worker thread: the task of an item ends with its result.
TaskFinishes ==
    /\ \E f \in Running :
          pool' = [pool EXCEPT !.finished = @ \cup {f}]
    /\ UNCHANGED <<cache_vars, tree_vars, durable, run_vars, config, probe, media>>

\* Lines 75-76: wait(futures, return_when=FIRST_COMPLETED) returns the
\* futures that are done, at least one; with no future left the function
\* returns (line 84).
PoolWait ==
    /\ pool.pc = "wait"
    /\ IF pool.futures = {}
       THEN pool' = [pool EXCEPT !.pc = "returned"]
       ELSE /\ pool.futures \cap pool.finished # {}
            /\ pool' = [pool EXCEPT
                          !.pc = "consume",
                          !.done = pool.futures \cap pool.finished]
    /\ UNCHANGED <<cache_vars, tree_vars, durable, run_vars, config, probe, media>>

\* Lines 77-83: one future of done: its result is appended, and the next
\* item, if there is one, is submitted.
PoolConsume ==
    /\ pool.pc = "consume"
    /\ \E fut \in pool.done :
          LET next_item == NextItem(pool.item_list, pool.position)
          IN  pool' = [pool EXCEPT
                         !.done = @ \ {fut},
                         !.pc = IF pool.done = {fut} THEN "wait" ELSE "consume",
                         !.results = Append(@, <<fut, TaskResult(fut)>>),
                         !.position = IF pool.position > Len(pool.item_list) THEN @ ELSE @ + 1,
                         !.futures = IF next_item # NULL
                                     THEN (@ \ {fut}) \cup {next_item}
                                     ELSE @ \ {fut}]
    /\ UNCHANGED <<cache_vars, tree_vars, durable, run_vars, config, probe, media>>

NextPool ==
    \/ PoolCall
    \/ PoolFill
    \/ TaskFinishes
    \/ PoolWait
    \/ PoolConsume

SpecPool == PoolInit /\ [][NextPool]_vars

\* The lists that are longer than the smaller pool by one item at most.
PoolInitShort ==
    /\ PoolInit
    /\ Len(pool.item_list) <= MaxItems("media")

\* Every task ends and the calling thread goes on.
SpecPoolLive == PoolInitShort /\ [][NextPool]_vars /\ WF_vars(NextPool)

(***************************************************************************)
(* media.py: the clustering of run_media_pipeline, for any signatures in   *)
(* any order.                                                              *)
(***************************************************************************)

\* The number of media files that have a signature.
NumMedia == 4

MediaPaths == 1..NumMedia

\* The kinds of the media files: all images, all videos, or both in turn.
MediaKinds ==
    {[p \in MediaPaths |-> IMAGE_KIND], [p \in MediaPaths |-> VIDEO_KIND],
     [p \in MediaPaths |-> IF p % 2 = 1 THEN IMAGE_KIND ELSE VIDEO_KIND]}

\* signatures_by_path for the kinds and the looks of the files.
SignaturesOf(kinds, looks) ==
    [p \in MediaPaths |->
        IF kinds[p] = IMAGE_KIND THEN ImageSignature(looks[p])
        ELSE VideoSignature(looks[p])]

\* run_media_pipeline at line 402: every file has its signature; the order
\* of signatures_by_path is that of the cache hits in the input and of the
\* workers' completion, which is any order.
ClusterInit ==
    /\ Connect
    /\ disk = [p \in Paths |-> 1]
    /\ mtime = [p \in Paths |-> 1]
    /\ hq = [c \in Contents |-> c]
    /\ hf = [c \in Contents |-> c]
    /\ dup_store = [p \in Paths |-> Absent]
    /\ durable = EmptyDb
    /\ pc = "media_cluster" /\ run = 1 /\ base_dirs = <<"root">> /\ cache_on = FALSE
    /\ files = <<>> /\ scanned = [p \in Paths |-> 1]
    /\ quick_hashes = <<>> /\ full_hashes = <<>>
    /\ work = <<>> /\ work_i = 1
    /\ moved_paths = {} /\ duplicates_moved = <<>>
    /\ anomalies = {} /\ move_errors = {}
    /\ stats = NoStats
    /\ history = <<>>
    /\ pool = <<>>
    /\ probe = NoProbe
    /\ config \in {c \in MediaConfigs : c.ffmpeg /\ c.ffprobe}
    /\ \E kinds \in MediaKinds, looks \in [MediaPaths -> Looks], order \in Reordered([p \in MediaPaths |-> p]) :
          media = [NoMedia EXCEPT
                      !.signatures_by_path = SignaturesOf(kinds, looks),
                      !.order = order]

NextCluster == MediaCluster

SpecCluster == ClusterInit /\ [][NextCluster]_vars

(***************************************************************************)
(* media.py: the blocks of run_media_pipeline, for files whose sizes,      *)
(* durations and hashes lie on both sides of every part of the key.        *)
(***************************************************************************)

\* What _probe_media reports: 640x480 and 10 seconds, and one that differs
\* from it within the width bucket (and across the aspect bucket), within
\* the duration bucket, across the duration bucket, and across the height
\* bucket.
BlockMetas ==
    {[width |-> 640, height |-> 480, duration |-> 10],
     [width |-> 700, height |-> 480, duration |-> 10],
     [width |-> 640, height |-> 480, duration |-> 11],
     [width |-> 640, height |-> 480, duration |-> 13],
     [width |-> 640, height |-> 520, duration |-> 10]}

\* The hash of an image and of the first frame of a video: two hashes one
\* bit apart, the bit being one of the top 16.
BlockHashes == {{}, {48}}

\* signatures_by_path: the (signature, meta) of each file.
BlockSignatures(kinds, hashes, metas) ==
    [p \in MediaPaths |->
        IF kinds[p] = IMAGE_KIND
        THEN <<[kind |-> IMAGE_KIND, hash |-> hashes[p]], metas[p]>>
        ELSE <<[kind |-> VIDEO_KIND, hashes |-> <<hashes[p], {}, {}, {}>>], metas[p]>>]

\* run_media_pipeline at line 402, the signatures in the order of the
\* paths or in the reverse order.
BlockInit ==
    /\ Connect
    /\ disk = [p \in Paths |-> 1]
    /\ mtime = [p \in Paths |-> 1]
    /\ hq = [c \in Contents |-> c]
    /\ hf = [c \in Contents |-> c]
    /\ dup_store = [p \in Paths |-> Absent]
    /\ durable = EmptyDb
    /\ pc = "media_cluster" /\ run = 1 /\ base_dirs = <<"root">> /\ cache_on = FALSE
    /\ files = <<>> /\ scanned = [p \in Paths |-> 1]
    /\ quick_hashes = <<>> /\ full_hashes = <<>>
    /\ work = <<>> /\ work_i = 1
    /\ moved_paths = {} /\ duplicates_moved = <<>>
    /\ anomalies = {} /\ move_errors = {}
    /\ stats = NoStats
    /\ history = <<>>
    /\ pool = <<>>
    /\ probe = NoProbe
    /\ config \in {c \in MediaConfigs : c.ffmpeg /\ c.ffprobe}
    /\ \E kinds \in MediaKinds, hashes \in [MediaPaths -> BlockHashes], metas \in [MediaPaths -> BlockMetas] :
       \E order \in {[p \in MediaPaths |-> p], [p \in MediaPaths |-> NumMedia + 1 - p]} :
          media = [NoMedia EXCEPT
                      !.signatures_by_path = BlockSignatures(kinds, hashes, metas),
                      !.order = order]

NextBlock == MediaCluster

SpecBlock == BlockInit /\ [][NextBlock]_vars

(***************************************************************************)
(* sieve.py and exact.py: runs that share one duplicate directory, with    *)
(* files written to the tree between the runs.                             *)
(***************************************************************************)

\* One base directory, digests that do not collide, one mtime.
InitReuse ==
    /\ Init
    /\ mtime = [p \in Paths |-> 1]
    /\ hq = [c \in Contents |-> c]
    /\ hf = [c \in Contents |-> c]

\* walk_many is called on the whole tree, without the cache.
ScanRoot ==
    /\ WalkManyScan
    /\ base_dirs' = <<"root">>
    /\ cache_on' = FALSE

\* Between two runs a file is written at a path that holds none.
FileAppears ==
    /\ pc = "returned"
    /\ run < MaxWalks
    /\ \E p \in Paths, c \in Contents :
          /\ disk[p] = Absent
          /\ disk' = [disk EXCEPT ![p] = c]
    /\ UNCHANGED <<cache_vars, mtime, hq, hf, dup_store, durable, run_vars, media_vars>>

NextReuse ==
    \/ ScanRoot
    \/ FileAppears
    \/ ExactQuick
    \/ ExactFull
    \/ ExactVerify
    \/ ExactReturn
    \/ WalkManyFinalize

SpecReuse == InitReuse /\ [][NextReuse]_vars

(***************************************************************************)
(* Claims about the exact pipeline.                                        *)
(***************************************************************************)

\* The paths of the inventory of the current run.
InventoryPaths == {files[i].path : i \in DOMAIN files}

\* The entries of the inventory that share the size and the full digest of
\* the entry of the path: its full-hash group.
FullGroupOf(path) ==
    {files[i] : i \in {j \in DOMAIN files :
        /\ files[j].path \in DOMAIN full_hashes
        /\ path \in DOMAIN full_hashes
        /\ files[j].size = SizeOf(scanned[path])
        /\ full_hashes[files[j].path] = full_hashes[path]}}

\* The pairs the verification loop has gone through.
Verified == {work[k] : k \in 1..(work_i - 1)}

\* The records of the moves of the current run.
MoveRecords == {duplicates_moved[i] : i \in DOMAIN duplicates_moved}

\* The pipeline of the current run has returned.
PipelineCompleted == pc \in {"media", "media_cluster", "finalize", "returned"}

\* C1: a file whose bytes differ from those of every other file of the
\* inventory is never moved: every moved path has another path of the
\* inventory that held the same bytes when the run began.
C1_UniqueNeverMoved ==
    \A p \in moved_paths :
        \E q \in InventoryPaths : q # p /\ scanned[q] = scanned[p]

\* A run has moved a file that no other file of the inventory equals.
C1_Witness ==
    \E p \in moved_paths :
        \A q \in InventoryPaths : q # p => scanned[q] # scanned[p]

\* C2: once the pipeline has completed, every class of two or more
\* byte-identical files of the inventory has one member still at its path,
\* and each other member is in moved_paths or had its move fail.
C2_OneRemainsPerClass ==
    PipelineCompleted =>
        \A c \in Contents :
            LET class == {p \in InventoryPaths : scanned[p] = c}
            IN  Cardinality(class) >= 2 =>
                    \E keep \in class :
                        /\ disk[keep] = c
                        /\ \A p \in class \ {keep} :
                               p \in moved_paths \cup move_errors

\* The pipeline has completed over one base directory and has left two
\* byte-identical files in place, neither a moved nor a failed move.
C2_Witness ==
    /\ PipelineCompleted
    /\ base_dirs = <<"root">>
    /\ \E p, q \in InventoryPaths :
          /\ p # q /\ scanned[p] = scanned[q]
          /\ {p, q} \cap (moved_paths \cup move_errors) = {}

\* C3: the canonical file of a full-hash group is its member of minimum
\* (mtime_ns, path): it is the canonical of every pair the group gives to
\* verification, and every move record of the group names it as kept.
C3_KeptIsMinimum ==
    /\ \A pair \in {work[k] : k \in DOMAIN work} :
          /\ pair.canonical \in FullGroupOf(pair.candidate.path)
          /\ \A meta \in FullGroupOf(pair.candidate.path) :
                ~KeyBefore(meta, pair.canonical)
    /\ \A rec \in MoveRecords :
          \E kept \in FullGroupOf(rec.source) :
              /\ kept.path = rec.kept
              /\ \A meta \in FullGroupOf(rec.source) : ~KeyBefore(meta, kept)

\* A move record names as kept a file that is older than the moved one and
\* comes after it in the inventory.
C3_Witness ==
    \E rec \in MoveRecords :
        /\ rec.kept > rec.source
        /\ mtime[rec.kept] < mtime[rec.source]

\* C4: a verified pair of files of one full-hash group whose bytes differ
\* is reported as a collision anomaly, no move record is produced for the
\* candidate, and canonical and candidate stay at their paths.
C4_CollisionSkipped ==
    /\ \A pair \in Verified :
          scanned[pair.canonical.path] # scanned[pair.candidate.path] =>
              [canonical |-> pair.canonical.path, candidate |-> pair.candidate.path] \in anomalies
    /\ \A a \in anomalies :
          /\ full_hashes[a.canonical] = full_hashes[a.candidate]
          /\ scanned[a.canonical] # scanned[a.candidate]
          /\ disk[a.canonical] = scanned[a.canonical]
          /\ disk[a.candidate] = scanned[a.candidate]
          /\ a.candidate \notin moved_paths
          /\ \A rec \in MoveRecords : rec.source # a.candidate

\* A run has returned after it reported a collision anomaly.
C4_Witness ==
    /\ pc = "returned"
    /\ anomalies # {}

\* C5: when the previous run over the same base directories returned with
\* no move having failed, the run moves no file, with or without the cache.
C5_SecondRunMovesNothing ==
    (run >= 2 /\ history[run - 1].clean /\ history[run - 1].base_dirs = base_dirs) =>
        moved_paths = {} /\ duplicates_moved = <<>>

\* A second run has verified pairs and returned, after a first run that
\* moved a file and had no failed move.
C5_Witness ==
    /\ run = 2 /\ pc = "returned"
    /\ history[1].clean /\ history[1].moved # {}
    /\ work # <<>>

(***************************************************************************)
(* Claims about the run: cache upkeep and error handling.                  *)
(***************************************************************************)

\* The fraction a is at least the fraction b.
AtLeast(a, b) == a[1] * b[2] >= b[1] * a[2]

\* The run that has returned follows a run that returned with the same
\* cache; the tree has not been touched in between.
SecondCachedRun ==
    /\ run >= 2 /\ pc = "returned" /\ cache_on
    /\ history[run - 1].returned /\ history[run - 1].cache_on

\* C11: when a run with the cache has returned, no cache row is left whose
\* path is absent from the scan set of that run.
C11_AbsentRowsPruned ==
    (pc = "returned" /\ cache_on) =>
        \A path \in DOMAIN db : path \in InventoryPaths

\* A run with the cache has returned from an empty scan and the cache still
\* holds a row.
C11_Witness ==
    /\ pc = "returned" /\ cache_on
    /\ files = <<>>
    /\ DOMAIN db # {}

C18_IoErrorDoesNotAbort ==
    pc # "aborted"

\* A run has been aborted by an I/O error with pairs left to verify.
C18_Witness ==
    /\ pc = "aborted"
    /\ work_i <= Len(work)

\* C19: a failed move adds nothing to moved_paths, emits no move record and
\* leaves the tree as it is, and the loop goes on with the next candidate;
\* a pipeline that has completed has gone through every candidate.
C19_MoveErrorContinues ==
    /\ [](PipelineCompleted => work_i = Len(work) + 1)
    /\ [][(pc = "exact_verify" /\ move_errors' # move_errors) =>
            /\ moved_paths' = moved_paths
            /\ duplicates_moved' = duplicates_moved
            /\ disk' = disk /\ dup_store' = dup_store
            /\ pc' = "exact_verify"
            /\ work_i' = work_i + 1]_vars

\* A run has returned after a move failed and a later candidate was moved.
C19_Witness ==
    /\ pc = "returned"
    /\ move_errors # {}
    /\ \E i \in DOMAIN duplicates_moved :
          \E e \in move_errors : duplicates_moved[i].source > e

\* C20: a run with the cache that has returned has left the cache
\* committed and closed, and no row carries a last_seen_run other than the
\* identifier of that run.
C20_RunEndsPruned ==
    (pc = "returned" /\ cache_on) =>
        /\ ~in_txn
        /\ durable = db
        /\ \A path \in DOMAIN db : db[path].last_seen_run = run

\* A run with the cache has returned and a row of an earlier run is left.
C20_Witness ==
    /\ pc = "returned" /\ cache_on
    /\ \E path \in DOMAIN db : db[path].last_seen_run < run

\* C30: the kept file of a move record is not moved in that run: source and
\* kept differ, kept is not in moved_paths, and when the run has returned
\* the kept file is still at its path, whatever base directories were given.
C30_KeptNeverMoved ==
    \A i \in DOMAIN duplicates_moved :
        /\ duplicates_moved[i].source # duplicates_moved[i].kept
        /\ duplicates_moved[i].kept \notin moved_paths
        /\ pc = "returned" => disk[duplicates_moved[i].kept] # Absent

\* A run over nested base directories has returned with a record whose
\* kept file is its own source and is gone from its path.
C30_Witness ==
    /\ pc = "returned" /\ base_dirs = <<"root", "sub">>
    /\ \E i \in DOMAIN duplicates_moved :
          /\ duplicates_moved[i].source = duplicates_moved[i].kept
          /\ disk[duplicates_moved[i].kept] = Absent

\* The call of run_exact_pipeline has ended, by a return or by an
\* exception.  The first call is given the scan of base_dirs.
CallEnded == pc \in {"returned", "aborted"}

\* C29: the files run_exact_pipeline moves and the kept file of each are
\* the same whatever the order of the input records: the second call, on
\* an equal tree and the same records in another order, moves what the
\* first call moved and names the same kept files.
C29_MovesOrderFree ==
    (CallEnded /\ run = 2) =>
        /\ moved_paths = history[1].moved
        /\ (pc = "returned" /\ history[1].returned) =>
              {<<r.source, r.kept>> : r \in MoveRecords} = history[1].duplicates

\* The records of one tree were given in two orders, a file listed before
\* a group that ends the call is moved in one order only.
C29_Witness ==
    /\ CallEnded /\ run = 2
    /\ base_dirs = <<"root", "root">>
    /\ moved_paths # history[1].moved
    /\ moved_paths # {} /\ history[1].moved # {}

\* C31: a move into the duplicate directory never replaces a file that is
\* already there: what a run finds at a mirrored destination stays there.
C31_MoveNeverReplaces ==
    [][\A p \in Paths : dup_store[p] # Absent => dup_store'[p] = dup_store[p]]_vars

\* The fingerprint columns of a cache row.
FingerprintColumns == {"quick_hash", "full_hash", "media_sig", "media_meta"}

\* C32: when a run that uses the cache ends, every row that the cache file
\* held at the start of the run for a scanned file, with the size,
\* mtime_ns, dev and ino the scan found, is still in the cache file, with
\* every fingerprint it had.
C32_ScannedRowSurvives ==
    [][(pc = "finalize" /\ pc' = "returned" /\ cache_on) =>
          \A i \in DOMAIN files :
             LET meta == files[i]
             IN  (/\ meta.path \in DOMAIN durable
                  /\ StatMatches(durable[meta.path], meta.size, meta.mtime_ns, meta.dev, meta.ino))
                    => /\ meta.path \in DOMAIN durable'
                       /\ \A col \in FingerprintColumns :
                             durable[meta.path][col] # NULL
                                => durable'[meta.path][col] = durable[meta.path][col]]_vars

\* The files one stage of a run looks up in the cache, and the column the
\* stage is after.
StageFiles ==
    IF pc = "exact_quick" THEN CandidateFiles
    ELSE IF pc = "exact_full" THEN FullCandidates
    ELSE IF pc = "media" THEN Candidates(files, moved_paths)
    ELSE <<>>

\* get gave a record that holds what the stage is after: a cache hit.
StageHit(record) ==
    /\ record # None
    /\ IF pc = "exact_quick" THEN record.quick_hash # NULL
       ELSE IF pc = "exact_full" THEN record.full_hash # NULL
       ELSE record.media_sig # NULL /\ record.media_meta # NULL

\* A stage of a run that uses the cache has done its cache calls.
StageStored ==
    /\ cache_on
    /\ \/ pc = "exact_quick" /\ pc' = "exact_full"
       \/ pc = "exact_full" /\ pc' = "exact_verify"
       \/ pc = "media" /\ pc' = "media_cluster"

\* C33: when a stage has done its cache calls, every row that was added or
\* changed bears the identifier of the run, every file the stage had a
\* cache hit for has a row that bears it, and that row holds the four
\* fingerprints that get returned.
C33_WritesStampRun ==
    [][StageStored =>
          /\ \A p \in DOMAIN db' :
                (p \notin DOMAIN db \/ db'[p] # db[p]) => db'[p].last_seen_run = run
          /\ \A i \in DOMAIN StageFiles :
                LET meta == StageFiles[i]
                    record == Get(db, meta.path, meta.size, meta.mtime_ns, meta.dev, meta.ino)
                IN  StageHit(record) =>
                       /\ meta.path \in DOMAIN db'
                       /\ db'[meta.path].last_seen_run = run
                       /\ RowRecord(db'[meta.path]) = record]_vars

\* A second run has written a fresh fingerprint into a new row and has
\* re-written a row of the first run on a cache hit.
C33_Witness ==
    /\ run = 2 /\ cache_on
    /\ pc \in {"exact_full", "exact_verify", "media_cluster"}
    /\ \E p \in DOMAIN db : p \notin DOMAIN durable
    /\ \E p \in DOMAIN db \cap DOMAIN durable :
          /\ db[p].last_seen_run = 2
          /\ durable[p].last_seen_run = 1
          /\ RowRecord(db[p]) = RowRecord(durable[p])

\* C34: the cache file changes only at a commit, and then to the rows of
\* the connection; a process that connects after a stop finds for every
\* path the row of the last commit, whole, or none if none was committed.
C34_DurableAtCommit ==
    [][/\ durable' # durable => (last_op' = "commit" /\ durable' = db)
       /\ last_op' \in {"connect", "rollback"} =>
             /\ DOMAIN db' = DOMAIN durable
             /\ \A p \in DOMAIN db' : db'[p] = durable[p]
             /\ durable' = durable]_vars

\* The process stopped with a transaction open; the one that connects
\* finds a row with its committed quick hash and without a path that was
\* never committed.
C34_Witness ==
    /\ last_op = "rollback"
    /\ \E p, q \in PrunePaths :
          /\ p \in DOMAIN db /\ db[p].quick_hash # NULL /\ db[p].full_hash = NULL
          /\ q \notin DOMAIN db

(***************************************************************************)
(* Claims about the scan.                                                  *)
(***************************************************************************)

\* The file the path names is the duplicate directory or lies beneath it.
NamesDupFile(path) ==
    InDupDir(config.platform, Resolve(config.platform, path),
             Resolve(config.platform, config.dup_dir))

\* C35: no path of the inventory names the duplicate directory or a file
\* beneath it.
C35_DupDirNotScanned ==
    pc = "scanned" => \A path \in files : ~NamesDupFile(path)

\* A file of the duplicate directory, which lies inside the base
\* directory, was left out of an inventory that is not empty.
C35_Witness ==
    /\ pc = "scanned"
    /\ files # {}
    /\ \E f \in DOMAIN disk :
          /\ InDupDir(config.platform, f, Resolve(config.platform, config.dup_dir))
          /\ \A path \in files : Resolve(config.platform, path) # f
    /\ StartsWith(Resolve(config.platform, config.dup_dir), Resolve(config.platform, AbspathOf(config.platform, base_dirs[1])))

\* The paths listed in the per-size view.
Listed(data) ==
    UNION {{data[key][k] : k \in DOMAIN data[key]} : key \in DOMAIN data}

\* C36: when walk_many has returned, the paths of the per-size view and
\* moved_paths have no path in common and together are the scanned paths,
\* every path of the view is listed under the text of the size the scan
\* found, and the source of every move record is in moved_paths.
C36_MovedOrListed ==
    pc = "returned" =>
        LET data == Data(files, moved_paths)
        IN  /\ Listed(data) \cap moved_paths = {}
            /\ Listed(data) \cup moved_paths = InventoryPaths
            /\ \A key \in DOMAIN data : \A k \in DOMAIN data[key] :
                  \E i \in DOMAIN files :
                     files[i].path = data[key][k] /\ key = Str(files[i].size)
            /\ \A i \in DOMAIN files :
                  files[i].path \notin moved_paths =>
                     \E k \in DOMAIN data[Str(files[i].size)] :
                        data[Str(files[i].size)][k] = files[i].path
            /\ \A r \in DOMAIN duplicates_moved :
                  duplicates_moved[r].source \in moved_paths

\* A run returned with a file moved and with files of two sizes in the
\* view.
C36_Witness ==
    /\ pc = "returned"
    /\ moved_paths # {}
    /\ Cardinality(DOMAIN Data(files, moved_paths)) = 2

(***************************************************************************)
(* Claims about the clusters                                               *)
(***************************************************************************)

\* The paths a chain of similar pairs links to one of members.
RECURSIVE ChainFrom(_, _)
ChainFrom(members, pairs) ==
    LET grown == members \cup UNION {pair \in pairs : pair \cap members # {}}
    IN  IF grown = members THEN members ELSE ChainFrom(grown, pairs)

\* The clusters without their cluster_id.
Unnumbered(clusters) ==
    {[paths |-> clusters[k].paths, score_summary |-> clusters[k].score_summary] :
        k \in DOMAIN clusters}

\* The member paths of a cluster.
Members(cluster) == {cluster.paths[i] : i \in DOMAIN cluster.paths}

\* C24: whatever the order in which the signatures came into
\* signatures_by_path (the order of the input and of the workers'
\* completion), the clusters are, but for their cluster_id, those of the
\* run that got the same signatures in ascending order of path: the same
\* sorted member paths with the same score summaries, each once.
C24_ClustersOrderFree ==
    pc = "finalize" =>
        LET clusters == media.similar_media_candidates
            ascending == Clusters(media.signatures_by_path, IdxSeq(MediaPaths))
        IN  /\ Unnumbered(clusters) = Unnumbered(ascending)
            /\ Cardinality(Unnumbered(clusters)) = Len(clusters)
            /\ Len(clusters) = Len(ascending)

\* Two clusters came out of signatures that were not in ascending order of
\* path, and the first cluster is not the one with the smallest path.
C24_Witness ==
    /\ pc = "finalize"
    /\ Len(media.similar_media_candidates) = 2
    /\ media.similar_media_candidates[1].paths[1] > media.similar_media_candidates[2].paths[1]
    /\ media.order[1] > media.order[2]

\* C25: two paths are in one cluster exactly when a chain of similar pairs
\* links them; no cluster has fewer than two paths, no path is in two
\* clusters, the paths of a cluster ascend, and the k-th cluster of the
\* output is media-k.
C25_OneClusterPerComponent ==
    pc = "finalize" =>
        LET clusters == media.similar_media_candidates
            pairs == DOMAIN media.score_by_pair
        IN  /\ \A p, q \in MediaPaths :
                  p # q =>
                      ((\E k \in DOMAIN clusters : {p, q} \subseteq Members(clusters[k]))
                          <=> q \in ChainFrom({p}, pairs))
            /\ \A k \in DOMAIN clusters :
                  /\ Len(clusters[k].paths) >= 2
                  /\ \A i \in 1..(Len(clusters[k].paths) - 1) :
                        clusters[k].paths[i] < clusters[k].paths[i + 1]
                  /\ clusters[k].cluster_id = k
            /\ \A p \in MediaPaths :
                  Cardinality({k \in DOMAIN clusters : p \in Members(clusters[k])}) <= 1

\* Three paths are one cluster though only two of their pairs are similar,
\* and the fourth path, similar to none, is in no cluster.
C25_Witness ==
    /\ pc = "finalize"
    /\ Len(media.similar_media_candidates) = 1
    /\ Len(media.similar_media_candidates[1].paths) = 3
    /\ media.similar_media_candidates[1].score_summary.pairs = 2
    /\ media.order[1] > media.order[2]

\* The key the files are blocked by: for an image the kind, width / 64,
\* height / 64 and the top 16 bits of the hash; for a video the kind, the
\* duration bucket, the rounded tenfold aspect ratio and the top 16 bits
\* of the hash of the first frame.
KeyOfFile(path) ==
    LET signature == media.signatures_by_path[path][1]
        meta == media.signatures_by_path[path][2]
        top16(hash) == {b - 48 : b \in {x \in hash : x >= 48}}
    IN  IF signature.kind = IMAGE_KIND
        THEN [kind |-> signature.kind,
              width |-> meta.width \div 64, height |-> meta.height \div 64,
              prefix |-> top16(signature.hash)]
        ELSE [kind |-> signature.kind,
              duration |-> meta.duration \div config.duration_bucket_seconds,
              aspect |-> Round(meta.width * 10, meta.height),
              prefix |-> top16(signature.hashes[1])]

\* C38: two files that were compared and found similar have one blocking
\* key, and all members of a cluster have one blocking key and one kind.
C38_ClusterWithinBlock ==
    pc = "finalize" =>
        /\ \A pair \in DOMAIN media.score_by_pair :
              \A p \in pair, q \in pair : KeyOfFile(p) = KeyOfFile(q)
        /\ \A k \in DOMAIN media.similar_media_candidates :
              \A p \in Members(media.similar_media_candidates[k]), q \in Members(media.similar_media_candidates[k]) :
                 /\ KeyOfFile(p) = KeyOfFile(q)
                 /\ media.signatures_by_path[p][1].kind = media.signatures_by_path[q][1].kind

\* Files 1 and 2 form a cluster; file 3 has the hash of file 1 and is of
\* its kind, but not of its size, and is in no cluster with it.
C38_Witness ==
    /\ pc = "finalize"
    /\ \E k \in DOMAIN media.similar_media_candidates :
          Members(media.similar_media_candidates[k]) = {1, 2}
    /\ media.signatures_by_path[3][1] = media.signatures_by_path[1][1]
    /\ media.signatures_by_path[3][2] # media.signatures_by_path[1][2]
    /\ KeyOfFile(3) # KeyOfFile(1)

(***************************************************************************)
(* Claims about quick_hash.                                                *)
(***************************************************************************)

\* C37: the offsets quick_hash reads at are 0, size / 2 and
\* size - sample_size, each brought into 0..max(0, size - sample_size),
\* each once; and a file of size bytes, size no more than sample_size, is
\* read once, from offset 0, bytes_read is its size and the digest is
\* that of its bytes.
C37_QuickHashOffsets ==
    LET size == work.size
        sample_size == work.sample_size
        max_start == IF size - sample_size > 0 THEN size - sample_size ELSE 0
        clamped(offset) ==
            IF offset < 0 THEN 0 ELSE IF offset > max_start THEN max_start ELSE offset
        wanted == {clamped(0), clamped(size \div 2), clamped(size - sample_size)}
    IN  /\ pc \in {"reading", "hashed"} =>
              /\ {work.unique_offsets[i] : i \in DOMAIN work.unique_offsets} = wanted
              /\ Len(work.unique_offsets) = Cardinality(wanted)
              /\ \A i \in DOMAIN work.reads : work.reads[i].offset = work.unique_offsets[i]
        /\ pc = "hashed" =>
              /\ Len(work.reads) = Len(work.unique_offsets)
              /\ (Len(disk) = size /\ size <= sample_size) =>
                    /\ Len(work.reads) = 1
                    /\ work.reads[1].offset = 0
                    /\ quick_hashes[2] = size
                    /\ quick_hashes[1] = Blake2b(disk, 16)

\* A file longer than the sample was read at three offsets, and a file
\* that is not empty and no longer than the sample was read at one.
C37_Witness ==
    /\ pc = "hashed"
    /\ Len(disk) = work.size
    /\ \/ Len(work.reads) = 3 /\ work.reads[3].offset = work.size - work.sample_size
       \/ work.size = 2 /\ work.sample_size = 3 /\ Len(work.reads) = 1

(***************************************************************************)
(* Claims about the configuration.                                         *)
(***************************************************************************)

\* The value of the key by precedence: the argument, else the file, else
\* the default.
Chosen(k) ==
    IF k \in DOMAIN config.args THEN config.args[k]
    ELSE IF k \in DOMAIN config.file THEN FromFile(config.file, k, PyNone)
    ELSE Defaults[k]

\* C21: for every configuration key the value the Sieve uses is the
\* constructor argument if one was given, otherwise the value of the config
\* file if it sets the key, otherwise the default.  The two paths are made
\* absolute, and cache_db is in use only when no_cache is not given.
C21_Precedence ==
    config.stage = "built" =>
        \A k \in Keys :
            CASE k = "dup_dir" -> config.attrs[k] = PyStr(Abspath(Chosen(k).str))
              [] k = "cache_db" ->
                    ~config.no_cache => config.attrs[k] = PyStr(Abspath(Chosen(k).str))
              [] OTHER -> config.attrs[k] = Chosen(k)

\* A Sieve was built from an argument that overrides another value of the
\* file for its key.
C21_Witness ==
    /\ config.stage = "built"
    /\ \E k \in DOMAIN config.args \cap DOMAIN config.file :
          /\ config.args[k] # FromFile(config.file, k, PyNone)
          /\ FromFile(config.file, k, PyNone) # Defaults[k]
          /\ config.attrs[k] = config.args[k]

\* The value is not an integer greater than zero.
NotPositive(value) == value.type # "int" \/ value.int < 1

\* The value is not an integer, or is less than zero.
Negative(value) == value.type # "int" \/ value.int < 0

\* The duplicate directory cannot be used: it is a file, cannot be made,
\* or cannot be written to.
DupDirUnusable == config.dir \in {"uncreatable", "file", "readonly_dir"}

\* The constructor has raised its ValueError, and nothing was walked.
Rejected == config.stage = "rejected" /\ run = 0 /\ pc = "idle" /\ files = <<>>

Thresholds ==
    {"image_hamming_threshold", "video_hamming_threshold", "video_frame_hamming_threshold"}

\* C22 as stated: the construction is rejected, before any scan or move,
\* whenever the merged mode is not exact or media, the duplicate directory
\* is not a writable directory, a worker count is not a positive integer, or
\* one of the three Hamming thresholds or the duration bucket is not
\* positive.
C22_InvalidRejected ==
    LET merged == Merged(config.args, config.file)
    IN  (/\ config.stage # "args"
         /\ \/ merged["mode"] \notin {PyStr("exact"), PyStr("media")}
            \/ DupDirUnusable
            \/ NotPositive(merged["hash_workers"])
            \/ NotPositive(merged["media_workers"])
            \/ \E k \in Thresholds : NotPositive(merged[k])
            \/ NotPositive(merged["duration_bucket_seconds"]))
        => Rejected

\* C22: the construction is rejected, before any scan or move, whenever the
\* merged mode is not exact or media, the duplicate directory is not a
\* writable directory, a worker count or the duration bucket is not a
\* positive integer, or one of the three Hamming thresholds is negative;
\* and only a rejected construction is never walked.
C22_InvalidRejectedZeroAllowed ==
    LET merged == Merged(config.args, config.file)
    IN  /\ (/\ config.stage # "args"
            /\ \/ merged["mode"] \notin {PyStr("exact"), PyStr("media")}
               \/ DupDirUnusable
               \/ NotPositive(merged["hash_workers"])
               \/ NotPositive(merged["media_workers"])
               \/ \E k \in Thresholds : Negative(merged[k])
               \/ NotPositive(merged["duration_bucket_seconds"]))
           => Rejected
        /\ run > 0 => config.stage = "built"

\* A construction was rejected for nothing but a worker count of zero, and
\* another with a threshold below zero.
C22_Witness ==
    LET merged == Merged(config.args, config.file)
    IN  /\ Rejected
        /\ ~DupDirUnusable
        /\ merged["mode"] = PyStr("exact")
        /\ \/ merged["hash_workers"] = PyInt(0)
           \/ merged["image_hamming_threshold"] = PyInt(0 - 1)

(***************************************************************************)
(* Claims about the mirror rule.                                           *)
(***************************************************************************)

\* The path is strictly beneath the duplicate directory.
Beneath(path) ==
    /\ StartsWith(path, config.dup_dir \o <<Sep(config.platform)>>)
    /\ Len(path) > Len(config.dup_dir) + 1

InFlight == Cardinality(pool.futures)

\* C26: in both schedulers the number of submitted tasks whose result has
\* not been consumed is at most the multiplier (4 in exact.py, 2 in
\* media.py) times the workers, and after the initial fill a task is
\* submitted only in the step that consumes the result of another.
C26_InFlightBounded ==
    /\ [](InFlight <= Multiplier(pool.module) * pool.workers)
    /\ [][(pool.futures' \ pool.futures # {} /\ pool.pc # "fill") =>
              /\ pool.pc = "consume"
              /\ Len(pool.results') = Len(pool.results) + 1
              /\ Cardinality(pool.futures') <= Cardinality(pool.futures)]_vars

\* The pool of exact.py is full again after results were consumed, and
\* items are left.
C26_Witness ==
    /\ pool.module = "exact" /\ pool.workers = 2
    /\ InFlight = ExactMultiplier * pool.workers
    /\ pool.results # <<>>

\* C27: for every list of items and every number of workers from one up,
\* when every task ends without raising, _bounded_parallel_map returns, and
\* its result holds every item of the list once, with the result of its
\* task, whatever the order in which the tasks end.
C27_ReturnsEveryItemOnce ==
    /\ <>(pool.pc = "returned")
    /\ [](pool.pc = "returned" =>
            /\ Len(pool.results) = Len(pool.item_list)
            /\ \A i \in DOMAIN pool.item_list :
                  Cardinality({k \in DOMAIN pool.results : pool.results[k][1] = pool.item_list[i]}) = 1
            /\ \A k \in DOMAIN pool.results :
                  pool.results[k][2] = TaskResult(pool.results[k][1]))

\* The pool has returned the results of more items than it holds at once,
\* in another order than that of the list.
C27_Witness ==
    /\ pool.pc = "returned"
    /\ Len(pool.item_list) > MaxInFlight(pool.workers, Multiplier(pool.module))
    /\ pool.workers > 1
    /\ \E k \in DOMAIN pool.results : pool.results[k][1] # pool.item_list[k]

(***************************************************************************)
(* Claims about the media stage.                                           *)
(***************************************************************************)

\* The media stage of the current run has returned its clusters.
MediaReported ==
    /\ config.mode = "media"
    /\ pc \in {"finalize", "returned"}
    /\ media.order # <<>>

\* The signature the media stage holds for a path.
SignatureOf(path) == media.signatures_by_path[path][1]

\* Two paths with signatures have one blocking key.
SameBlock(a, b) ==
    BlockingKey(media.signatures_by_path[a][1], media.signatures_by_path[a][2], config.duration_bucket_seconds)
        = BlockingKey(media.signatures_by_path[b][1], media.signatures_by_path[b][2], config.duration_bucket_seconds)

\* The pairs of paths of one kind that share a block.
BlockPairs(kind) ==
    {pair \in SUBSET DOMAIN media.signatures_by_path :
        /\ Cardinality(pair) = 2
        /\ \A p \in pair : SignatureOf(p).kind = kind
        /\ \A p, q \in pair : SameBlock(p, q)}

\* The number of bit positions in which two 64-bit hashes differ.
BitsApart(left, right) ==
    Cardinality({b \in HashBits : (b \in left) # (b \in right)})

\* The pair was flagged: it has a score, and both paths are in one cluster.
Flagged(pair) ==
    /\ pair \in DOMAIN media.score_by_pair
    /\ \E k \in DOMAIN media.similar_media_candidates :
          pair \subseteq {media.similar_media_candidates[k].paths[i] :
                            i \in DOMAIN media.similar_media_candidates[k].paths}

\* The pair has no score.
NotFlagged(pair) == pair \notin DOMAIN media.score_by_pair

\* The distance of the two image hashes of a pair.
ImageDistance(pair) ==
    LET a == CHOOSE p \in pair : TRUE
        b == CHOOSE p \in pair : p # a
    IN  BitsApart(SignatureOf(a).hash, SignatureOf(b).hash)

\* The per-frame distances of the two videos of a pair with as many
\* frames.
FrameDistances(pair) ==
    LET a == CHOOSE p \in pair : TRUE
        b == CHOOSE p \in pair : p # a
    IN  [pos \in DOMAIN SignatureOf(a).hashes |->
            BitsApart(SignatureOf(a).hashes[pos], SignatureOf(b).hashes[pos])]

\* The two videos of a pair have as many frame hashes.
SameFrameCount(pair) ==
    \A p, q \in pair : Len(SignatureOf(p).hashes) = Len(SignatureOf(q).hashes)

\* C13: two images of one block are flagged as a similar pair, and end in
\* one cluster, exactly when the Hamming distance of their hashes is at
\* most image_hamming_threshold.
C13_ImagePairThreshold ==
    MediaReported =>
        \A pair \in BlockPairs(IMAGE_KIND) :
            IF ImageDistance(pair) <= config.image_hamming_threshold
            THEN Flagged(pair) /\ media.score_by_pair[pair] = ImageDistance(pair)
            ELSE NotFlagged(pair)

\* A run reported two images at exactly the threshold as a pair, and left
\* two images of the same block one bit further apart unflagged.
C13_Witness ==
    /\ MediaReported /\ pc = "returned"
    /\ \E pair \in BlockPairs(IMAGE_KIND) :
          ImageDistance(pair) = config.image_hamming_threshold /\ Flagged(pair)
    /\ \E pair \in BlockPairs(IMAGE_KIND) :
          ImageDistance(pair) = config.image_hamming_threshold + 1 /\ NotFlagged(pair)

\* C14: two videos of one block are flagged as a similar pair exactly when
\* they have as many frame hashes, the sum of the per-frame distances is at
\* most video_hamming_threshold and every per-frame distance is at most
\* video_frame_hamming_threshold.
C14_VideoPairThresholds ==
    MediaReported =>
        \A pair \in BlockPairs(VIDEO_KIND) :
            IF /\ SameFrameCount(pair)
               /\ Sum(FrameDistances(pair)) <= config.video_hamming_threshold
               /\ \A pos \in DOMAIN FrameDistances(pair) :
                     FrameDistances(pair)[pos] <= config.video_frame_hamming_threshold
            THEN Flagged(pair) /\ media.score_by_pair[pair] = Sum(FrameDistances(pair))
            ELSE NotFlagged(pair)

\* A run reported two videos whose sum and largest frame distance are
\* exactly the thresholds, and left unflagged two videos of the same block
\* whose frames are each within the frame threshold but whose sum is not.
C14_Witness ==
    /\ MediaReported /\ pc = "returned"
    /\ \E pair \in BlockPairs(VIDEO_KIND) :
          /\ Sum(FrameDistances(pair)) = config.video_hamming_threshold
          /\ \E pos \in DOMAIN FrameDistances(pair) :
                FrameDistances(pair)[pos] = config.video_frame_hamming_threshold
          /\ Flagged(pair)
    /\ \E pair \in BlockPairs(VIDEO_KIND) :
          /\ Sum(FrameDistances(pair)) > config.video_hamming_threshold
          /\ \A pos \in DOMAIN FrameDistances(pair) :
                FrameDistances(pair)[pos] <= config.video_frame_hamming_threshold
          /\ NotFlagged(pair)

\* A tool is missing in a run of mode media.
ToolMissing == config.mode = "media" /\ (~config.ffmpeg \/ ~config.ffprobe)

\* C15: when FFmpeg or FFprobe cannot be resolved, the media stage warns,
\* reports no cluster, tools_available false and no cache hit or miss,
\* makes no call to the cache, and hands over to the end of the run, which
\* returns.
C15_ToolsMissingSkipsStage ==
    /\ []((ToolMissing /\ pc \in {"finalize", "returned"} /\ files # <<>>) =>
            /\ media.warnings # {}
            /\ media.similar_media_candidates = <<>>
            /\ ~media.tools_available
            /\ media.cache_hits = 0 /\ media.cache_misses = 0
            /\ media.cache_calls = 0 /\ media.signatures_by_path = <<>>)
    /\ [][(ToolMissing /\ pc = "media") =>
            /\ pc' = "finalize"
            /\ db' = db /\ in_txn' = in_txn /\ stats' = stats]_vars
    /\ [][(ToolMissing /\ pc = "finalize") => pc' = "returned"]_vars

\* A run in mode media with the cache has returned without the tools after
\* its exact stage stored rows.
C15_Witness ==
    /\ ToolMissing /\ pc = "returned" /\ cache_on
    /\ ~media.tools_available
    /\ DOMAIN db # {}
    /\ history[run].returned

\* C16: no step of the media stage changes the tree, the duplicate
\* directory, moved_paths or duplicates_moved.
C16_MediaMovesNothing ==
    [][(pc \in {"media", "media_cluster"}) =>
          /\ disk' = disk /\ mtime' = mtime /\ dup_store' = dup_store
          /\ moved_paths' = moved_paths
          /\ duplicates_moved' = duplicates_moved]_vars

\* A run has moved a duplicate in its exact stage and reported a cluster
\* in its media stage.
C16_Witness ==
    /\ MediaReported /\ pc = "returned"
    /\ moved_paths # {}
    /\ media.similar_media_candidates # <<>>
    /\ \A p \in Paths : (disk[p] = Absent) = (p \in moved_paths)

\* C17: a path moved by the exact stage of a run is in no cluster of the
\* media stage of that run, and the stage neither holds a signature for it
\* nor ran a tool on it.
C17_MovedPathsExcluded ==
    \A p \in moved_paths :
        /\ p \notin DOMAIN media.signatures_by_path
        /\ p \notin media.failed
        /\ \A k \in DOMAIN media.similar_media_candidates :
              \A i \in DOMAIN media.similar_media_candidates[k].paths :
                 media.similar_media_candidates[k].paths[i] # p

\* The media stage reported a cluster in a run whose exact stage moved an
\* image or a video.
C17_Witness ==
    /\ MediaReported
    /\ media.similar_media_candidates # <<>>
    /\ \E p \in moved_paths : probe.kind[p] \in {IMAGE_KIND, VIDEO_KIND}

\* Every quick-hash task of the run has completed: each candidate has its
\* quick digest.
QuickStageDone ==
    \A i \in DOMAIN CandidateFiles : CandidateFiles[i].path \in DOMAIN quick_hashes

\* Every full-hash task of the run has completed.
FullStageDone ==
    \A i \in DOMAIN FullCandidates : FullCandidates[i].path \in DOMAIN full_hashes

\* The media stage has looked at a file.
MediaStarted == media.order # <<>> \/ media.failed # {} \/ media.cache_calls > 0

C39_FailureSkipsFile ==
    [][(pc = "media" /\ ToolsResolved) =>
          LET unread == media'.failed \cup media'.unparsed
          IN  /\ pc' \in {"media_cluster", "finalize"}
              /\ unread \subseteq media'.failed
              /\ \A p \in unread :
                    /\ p \notin DOMAIN media'.signatures_by_path
                    /\ p \in DOMAIN db' => (p \in DOMAIN db /\ db'[p] = db[p])]_vars

\* A tool failed on a file of a run with the cache, and the stage reported
\* a cluster of other files.
C39_Witness ==
    /\ pc = "finalize"
    /\ cache_on
    /\ media.failed # {}
    /\ media.similar_media_candidates # <<>>

(***************************************************************************)
(* Claims about the cache.                                                 *)
(***************************************************************************)

AllStats == [{"size", "mtime_ns", "dev", "ino"} -> Stats]

\* The stat columns of the row stored for path equal s, column by column.
SameStat(d, path, s) ==
    /\ path \in DOMAIN d
    /\ d[path].size = s.size
    /\ d[path].mtime_ns = s.mtime_ns
    /\ d[path].dev = s.dev
    /\ d[path].ino = s.ino

\* C6: after any sequence of upsert, commit and prune_stale, get returns a
\* record only if the row stored for the path has exactly the queried size,
\* mtime_ns, dev and ino; a mismatch in any one column, or no row, gives
\* None; and a returned record carries the stored fingerprint columns.
C6_GetExactStat ==
    /\ \A path \in RowPaths, s \in AllStats :
          LET r == GetOf(db, path, s)
          IN  /\ SameStat(db, path, s) =>
                    /\ r # None
                    /\ r.quick_hash = db[path].quick_hash
                    /\ r.full_hash = db[path].full_hash
                    /\ r.media_sig = db[path].media_sig
                    /\ r.media_meta = db[path].media_meta
              /\ ~SameStat(db, path, s) => r = None
    /\ last_op = "get_row" =>
          \E path \in DOMAIN db :
              /\ last_ret.quick_hash = db[path].quick_hash
              /\ last_ret.full_hash = db[path].full_hash
              /\ last_ret.media_sig = db[path].media_sig
              /\ last_ret.media_meta = db[path].media_meta

\* C6 witness: a get has returned the record of a row whose stat is not the
\* default one and that holds null and non-null columns.
C6_Witness ==
    /\ last_op = "get_row"
    /\ last_ret.quick_hash # NULL
    /\ last_ret.media_meta = NULL
    /\ \E path \in DOMAIN db : db[path].ino = 2

\* C7: an upsert onto a row whose stat differs from the incoming one in any
\* of size, mtime_ns, dev, ino leaves the four fingerprint columns equal to
\* the incoming values, null where the incoming value is null.
C7_ChangedStatReplaces ==
    \A path \in DOMAIN db, s \in Identities, f \in Fingerprints :
        ~SameStat(db, path, s) =>
            LET row == UpsertOf(db, path, s, f, MaxRun)[path]
            IN  /\ row.quick_hash = f.quick_hash
                /\ row.full_hash = f.full_hash
                /\ row.media_sig = f.media_sig
                /\ row.media_meta = f.media_meta

\* C7 witness: an upsert has replaced a row of another stat, and the row now
\* holds a null column next to a non-null one.
C7_Witness ==
    /\ last_op = "upsert_replace"
    /\ \E path \in DOMAIN db :
          /\ db[path].quick_hash = NULL
          /\ db[path].full_hash # NULL

\* C8: an upsert onto a row of the same stat gives every fingerprint column
\* the incoming value if that is non-null and the stored value otherwise.
C8_SameStatMerges ==
    \A path \in DOMAIN db, s \in Identities, f \in Fingerprints :
        SameStat(db, path, s) =>
            LET row == UpsertOf(db, path, s, f, MaxRun)[path]
                Pick(incoming, stored) ==
                    IF incoming # NULL THEN incoming ELSE stored
            IN  /\ row.quick_hash = Pick(f.quick_hash, db[path].quick_hash)
                /\ row.full_hash = Pick(f.full_hash, db[path].full_hash)
                /\ row.media_sig = Pick(f.media_sig, db[path].media_sig)
                /\ row.media_meta = Pick(f.media_meta, db[path].media_meta)

\* C8 witness: an upsert has merged into a row of the same stat, and the row
\* holds two different digests, which no single upsert writes.
C8_Witness ==
    /\ last_op = "upsert_merge"
    /\ \E path \in DOMAIN db :
          /\ db[path].quick_hash = 1
          /\ db[path].full_hash = 2

\* C9 as stated: for every prior cache, upsert(identity, f) followed by
\* get(identity) returns f verbatim.
C9_RoundTripVerbatim ==
    \A path \in RowPaths, s \in Identities, f \in Fingerprints :
        GetOf(UpsertOf(db, path, s, f, MaxRun), path, s) = f

\* C9 amended: upsert(identity, f) followed by get(identity) returns a
\* record that equals f in every column where f is non-null, and equals f
\* verbatim when the prior cache holds no row of that same identity; a null
\* column of f reads back as the column stored for that identity.
C9_RoundTrip ==
    \A path \in RowPaths, s \in Identities, f \in Fingerprints :
        LET r == GetOf(UpsertOf(db, path, s, f, MaxRun), path, s)
            Back(incoming, stored) ==
                IF incoming # NULL THEN incoming ELSE stored
        IN  /\ r # None
            /\ ~SameStat(db, path, s) => r = f
            /\ SameStat(db, path, s) =>
                  /\ r.quick_hash = Back(f.quick_hash, db[path].quick_hash)
                  /\ r.full_hash = Back(f.full_hash, db[path].full_hash)
                  /\ r.media_sig = Back(f.media_sig, db[path].media_sig)
                  /\ r.media_meta = Back(f.media_meta, db[path].media_meta)

\* C9 witness: a get after a merging upsert has returned a record with two
\* different digests, so not the fingerprints of any one upsert.
C9_Witness ==
    /\ last_op = "get_row"
    /\ last_ret.quick_hash = 2
    /\ last_ret.full_hash = 1

\* C10: after prune_stale(run_id) no row has another last_seen_run, and
\* every row stamped run_id is still there with all its columns.
C10_PruneStale ==
    /\ \A run_id \in Runs :
          LET after == PruneStale(db, run_id)
          IN  /\ \A path \in DOMAIN after : after[path].last_seen_run = run_id
              /\ \A path \in DOMAIN db :
                    db[path].last_seen_run = run_id =>
                        path \in DOMAIN after /\ after[path] = db[path]
              /\ DOMAIN after \subseteq DOMAIN db
    /\ last_op = "prune_stale" =>
          \A p, q \in DOMAIN db : db[p].last_seen_run = db[q].last_seen_run

\* C10 witness: a prune_stale has deleted a row and kept another.
C10_Witness ==
    /\ last_op = "prune_stale"
    /\ last_ret.deleted > 0
    /\ DOMAIN db # {}

====
